---- MODULE Spec2Model ----
(***************************************************************************)
(* The transitive path operator of QLever (src/engine, TransitivePath).    *)
(*                                                                         *)
(* One call of computeResult is a run of the state machine below: the      *)
(* entry checks, the construction of the edge map (one step per row for    *)
(* the HashMap back-end), the depth-first search (one step per iteration   *)
(* of the stack loop) and the materialisation of the output table.         *)
(* Three implementations live in the source tree and are modelled side by  *)
(* side: TransitivePathFallback (HashMap), TransitivePathBinSearch and     *)
(* the older monolithic TransitivePath.                                    *)
(***************************************************************************)
EXTENDS Integers, Sequences, FiniteSets, TLC

\* ------------------------------------------------------------------ bounds
\* Node ids are 1..NumNodes.
NumNodes == 3
\* Largest number of rows of the edge relation.
MaxRows == 3
\* Largest finite distance used for minDist and maxDist.
MaxFiniteDist == 2
\* Largest number of rows of the edge relation in the runs of the older
\* TransitivePath operator.
MaxLegacyRows == 2
\* std::numeric_limits<size_t>::max(), the saturated maxDist ("unbounded").
\* No depth of the model comes near it, so the width of size_t is immaterial.
SIZE_MAX == 2147483647

Node == 1..NumNodes

\* Content of a table cell that was appended but never written.
Uninit == 0

\* ------------------------------------------------------------ plans, tables
\* A QueryExecutionTree is a plan id and the columns its result is sorted on.
NoPlan == [id |-> "none", sortedOn |-> <<>>]
SubPlan == [id |-> "sub", sortedOn |-> <<>>]

\* Lexicographic comparison of two rows on the (0-based) columns cols.
RECURSIVE RowLeq(_, _, _)
RowLeq(r1, r2, cols) ==
  IF cols = <<>> THEN TRUE
  ELSE LET c == Head(cols) + 1 IN
       IF r1[c] < r2[c] THEN TRUE
       ELSE IF r1[c] > r2[c] THEN FALSE
       ELSE RowLeq(r1, r2, Tail(cols))

RECURSIVE InsertSorted(_, _, _)
InsertSorted(r, s, cols) ==
  IF s = <<>> THEN <<r>>
  ELSE IF RowLeq(Head(s), r, cols) THEN <<Head(s)>> \o InsertSorted(r, Tail(s), cols)
  ELSE <<r>> \o s

\* The rows of a table sorted (stably) on cols; the result of a Sort operation.
RECURSIVE SortRows(_, _)
SortRows(rows, cols) ==
  IF rows = <<>> THEN <<>>
  ELSE InsertSorted(rows[Len(rows)], SortRows(SubSeq(rows, 1, Len(rows) - 1), cols), cols)

\* QueryExecutionTree::createSortedTree: the plan itself when it is already
\* sorted on cols, a Sort on top of it otherwise.
createSortedTree(plan, cols) == [plan EXCEPT !.sortedOn = cols]

IsSortedOn(rows, cols) ==
  \A i \in 1..(Len(rows) - 1) : RowLeq(rows[i], rows[i + 1], cols)

\* The edge relations of the model: the result of the edge sub-plan, sorted
\* on (column 0, column 1); a row can occur more than once (the sub-plan
\* need not be an index scan).
EdgeRelations ==
  { s \in UNION { [1..n -> Node \X Node] : n \in 0..MaxRows } :
      \A i \in 1..(Len(s) - 1) : RowLeq(s[i], s[i + 1], <<0, 1>>) }

\* The variables of the columns of the feeder plans (getVariableColumns).
PlanVars(id) ==
  CASE id = "p1" -> <<"?a", "?x">>
    [] id = "p2" -> <<"?y">>
    [] id = "p3" -> <<"?y", "?b">>
    [] OTHER -> <<>>

\* ------------------------------------------------------- side descriptors
VarSide(name, subCol) ==
  [isVar |-> TRUE, id |-> 0, var |-> name, bound |-> FALSE, tree |-> NoPlan,
   col |-> 0, subCol |-> subCol, outputCol |-> 0]

IdSide(id, subCol) ==
  [isVar |-> FALSE, id |-> id, var |-> "", bound |-> FALSE, tree |-> NoPlan,
   col |-> 0, subCol |-> subCol, outputCol |-> 0]

isVariable(side) == side.isVar
isBoundVariable(side) == side.bound

\* variableColumns_[v] = c on a map kept as a set of <<variable, column>>.
PutVar(m, v, c) == { e \in m : e[1] # v } \cup { <<v, c>> }

\* The constructor of the operator.
TransitivePath(child, leftSide, rightSide, minD, maxD) ==
  LET vc0 == IF isVariable(leftSide) THEN PutVar({}, leftSide.var, 0) ELSE {}
      vc1 == IF isVariable(rightSide) THEN PutVar(vc0, rightSide.var, 1) ELSE vc0
  IN [subtree |-> child,
      lhs |-> [leftSide EXCEPT !.outputCol = 0],
      rhs |-> [rightSide EXCEPT !.outputCol = 1],
      resultWidth |-> 2, minDist |-> minD, maxDist |-> maxD,
      variableColumns |-> vc1]

\* Variant of AddFeederColumns: the join column is not left out.
RECURSIVE AddFeederColumns_all(_, _, _, _)
AddFeederColumns_all(p, pvars, columnIndex, inputCol) ==
  IF columnIndex >= Len(pvars) THEN p
  ELSE LET shifted == columnIndex + (IF columnIndex > inputCol THEN 1 ELSE 2)
           q == [p EXCEPT !.variableColumns =
                              PutVar(@, pvars[columnIndex + 1], shifted),
                          !.resultWidth = @ + 1]
       IN AddFeederColumns_all(q, pvars, columnIndex + 1, inputCol)

\* Variant of AddFeederColumns: every column is shifted by one.
RECURSIVE AddFeederColumns_shift1(_, _, _, _)
AddFeederColumns_shift1(p, pvars, columnIndex, inputCol) ==
  IF columnIndex >= Len(pvars) THEN p
  ELSE IF columnIndex = inputCol
       THEN AddFeederColumns_shift1(p, pvars, columnIndex + 1, inputCol)
  ELSE LET shifted == columnIndex + 1
           q == [p EXCEPT !.variableColumns =
                              PutVar(@, pvars[columnIndex + 1], shifted),
                          !.resultWidth = @ + 1]
       IN AddFeederColumns_shift1(q, pvars, columnIndex + 1, inputCol)

\* The loop of bindLeftOrRightSide over the feeder's variable columns, column
\* by column: every column but inputCol gets an output column and widens the
\* result by one.
RECURSIVE AddFeederColumns(_, _, _, _)
AddFeederColumns(p, pvars, columnIndex, inputCol) ==
  IF columnIndex >= Len(pvars) THEN p
  ELSE IF columnIndex = inputCol
       THEN AddFeederColumns(p, pvars, columnIndex + 1, inputCol)
  ELSE LET shifted == columnIndex + (IF columnIndex > inputCol THEN 1 ELSE 2)
           q == [p EXCEPT !.variableColumns =
                              PutVar(@, pvars[columnIndex + 1], shifted),
                          !.resultWidth = @ + 1]
       IN AddFeederColumns(q, pvars, columnIndex + 1, inputCol)

\* Variant of bindLeftOrRightSide: treeAndCol is set on *this, which is then
\* copied.
bindLeftOrRightSide_inPlace(heap, this, leftOrRightOp, inputCol, isLeft) ==
  LET sorted == createSortedTree(leftOrRightOp, <<inputCol>>)
      self == heap[this]
      bound == IF isLeft
               THEN [self EXCEPT !.lhs.bound = TRUE, !.lhs.tree = sorted, !.lhs.col = inputCol]
               ELSE [self EXCEPT !.rhs.bound = TRUE, !.rhs.tree = sorted, !.rhs.col = inputCol]
      p0 == TransitivePath(bound.subtree, bound.lhs, bound.rhs, bound.minDist, bound.maxDist)
  IN Append([heap EXCEPT ![this] = bound],
            AddFeederColumns(p0, PlanVars(leftOrRightOp.id), 0, inputCol))

\* bindLeftSide / bindRightSide on the operator at address this of the heap
\* of operator objects: make_shared allocates a new operator, built by the
\* constructor from the subtree, the sides and the window of *this; one side
\* of the new operator is bound and the feeder's columns are added to it.
\* The result is the new heap; the returned pointer is its last address.
bindLeftOrRightSide(heap, this, leftOrRightOp, inputCol, isLeft) ==
  LET sorted == createSortedTree(leftOrRightOp, <<inputCol>>)
      self == heap[this]
      p0 == TransitivePath(self.subtree, self.lhs, self.rhs, self.minDist, self.maxDist)
      p1 == IF isLeft
            THEN [p0 EXCEPT !.lhs.bound = TRUE, !.lhs.tree = sorted, !.lhs.col = inputCol]
            ELSE [p0 EXCEPT !.rhs.bound = TRUE, !.rhs.tree = sorted, !.rhs.col = inputCol]
  IN Append(heap, AddFeederColumns(p1, PlanVars(leftOrRightOp.id), 0, inputCol))

bindLeftSide(heap, this, leftop, inputCol) ==
  bindLeftOrRightSide(heap, this, leftop, inputCol, TRUE)

bindRightSide(heap, this, rightop, inputCol) ==
  bindLeftOrRightSide(heap, this, rightop, inputCol, FALSE)

\* ------------------------------------------------------ direction, sides
Side(o, which) == IF which = "lhs" THEN o.lhs ELSE o.rhs
Other(which) == IF which = "lhs" THEN "rhs" ELSE "lhs"

\* TransitivePathBase::isBoundOrId: a side is bound to a feeder or is an id.
isBoundOrId(o) ==
  \/ isBoundVariable(o.lhs) \/ isBoundVariable(o.rhs)
  \/ ~isVariable(o.lhs) \/ ~isVariable(o.rhs)

\* getSizeEstimate of a feeder plan: the number of rows of its table.
SizeEstimate(tabs, plan) == Len(tabs[plan.id])

\* TransitivePathBase::decideDirection: the side the traversal starts from.
decideDirection(o, tabs) ==
  IF isVariable(o.lhs) # isVariable(o.rhs)
  THEN (IF ~isVariable(o.lhs) THEN "lhs" ELSE "rhs")
  ELSE IF isBoundVariable(o.lhs) # isBoundVariable(o.rhs)
  THEN (IF isBoundVariable(o.lhs) THEN "lhs" ELSE "rhs")
  ELSE IF isBoundVariable(o.lhs) /\ isBoundVariable(o.rhs)
          /\ SizeEstimate(tabs, o.rhs.tree) < SizeEstimate(tabs, o.lhs.tree)
  THEN "rhs"
  ELSE "lhs"

\* The optional target id handed to transitiveHull.
NoTarget == [has |-> FALSE, id |-> 0]
TargetOf(targetSide) ==
  IF ~isVariable(targetSide) THEN [has |-> TRUE, id |-> targetSide.id] ELSE NoTarget

\* ------------------------------------------------------- hash containers
\* The iteration order of an unordered set or map is fixed by the hash
\* function; rank gives the position of every id in that order.
RECURSIVE IterOrder(_, _)
IterOrder(S, rank) ==
  IF S = {} THEN <<>>
  ELSE LET x == CHOOSE x \in S : \A y \in S : rank[x] <= rank[y]
       IN <<x>> \o IterOrder(S \ {x}, rank)

EmptyMap == [k \in {} |-> {}]

\* map[key].insert(value), creating the key when it is new.
insertIntoMap(map, key, value) ==
  IF key \in DOMAIN map
  THEN [map EXCEPT ![key] = @ \cup {value}]
  ELSE map @@ (key :> {value})

\* Variant of Column: column 0, whatever c is.
Column_zero(rows, c) == [i \in 1..Len(rows) |-> rows[i][1]]
Column(rows, c) == [i \in 1..Len(rows) |-> rows[i][c + 1]]

\* ------------------------------------------------------- BinSearchMap
\* std::lower_bound / std::upper_bound on a column, by bisection of [lo, hi).
RECURSIVE LowerBound(_, _, _, _)
LowerBound(col, x, lo, hi) ==
  IF lo >= hi THEN lo
  ELSE LET mid == (lo + hi) \div 2
       IN IF col[mid + 1] < x THEN LowerBound(col, x, mid + 1, hi)
          ELSE LowerBound(col, x, lo, mid)

RECURSIVE UpperBound(_, _, _, _)
UpperBound(col, x, lo, hi) ==
  IF lo >= hi THEN lo
  ELSE LET mid == (lo + hi) \div 2
       IN IF col[mid + 1] <= x THEN UpperBound(col, x, mid + 1, hi)
          ELSE UpperBound(col, x, lo, mid)

\* BinSearchMap::successors: the slice of the target column whose rows hold
\* node in the start column.
successors(map, node) ==
  LET n == Len(map.startCol)
  IN SubSeq(map.targetCol, LowerBound(map.startCol, node, 0, n) + 1,
            UpperBound(map.startCol, node, 0, n))

\* ------------------------------------------------------- the DFS tests
\* Variant of withinMaxDist: no depth is too large.
withinMaxDist_always(depth, maxD) == TRUE
\* childDepth <= maxDist_
withinMaxDist(depth, maxD) == depth <= maxD
\* Variant: the test passes one edge early.
reachedMinDist_early(depth, minD) == depth + 1 >= minD
\* childDepth >= minDist_
reachedMinDist(depth, minD) == depth >= minD
\* Variant of targetMatches: every node passes.
targetMatches_any(target, node) == TRUE
\* !target.has_value() || child == target.value()
targetMatches(target, node) == ~target.has \/ node = target.id

\* Variant of FallbackStep: ++pos is only done for a child that is processed.
FallbackStep_posKept(s) ==
  LET top == s.stack[Len(s.stack)]
      nodeEdges == IterOrder(s.edges[top.key], s.rank)
  IN IF top.pos > Len(nodeEdges)
     THEN [hull |-> s.hull, marks |-> s.marks,
           stack |-> SubSeq(s.stack, 1, Len(s.stack) - 1)]
     ELSE LET child == nodeEdges[top.pos]
              advanced == [s.stack EXCEPT ![Len(s.stack)].pos = @ + 1]
              childDepth == Len(s.stack)
          IN IF withinMaxDist(childDepth, s.maxDist) /\ child \notin s.marks
             THEN [hull |-> IF reachedMinDist(childDepth, s.minDist)
                               /\ targetMatches(s.target, child)
                            THEN insertIntoMap(s.hull, s.cur, child) ELSE s.hull,
                   marks |-> IF reachedMinDist(childDepth, s.minDist)
                             THEN s.marks \cup {child} ELSE s.marks,
                   stack |-> IF child \in DOMAIN s.edges
                             THEN Append(advanced, [key |-> child, pos |-> 1])
                             ELSE advanced]
             ELSE [hull |-> s.hull, marks |-> s.marks, stack |-> s.stack]

\* Variant of FallbackStep: a child is marked at every depth.
FallbackStep_markAll(s) ==
  LET top == s.stack[Len(s.stack)]
      nodeEdges == IterOrder(s.edges[top.key], s.rank)
  IN IF top.pos > Len(nodeEdges)
     THEN [hull |-> s.hull, marks |-> s.marks,
           stack |-> SubSeq(s.stack, 1, Len(s.stack) - 1)]
     ELSE LET child == nodeEdges[top.pos]
              advanced == [s.stack EXCEPT ![Len(s.stack)].pos = @ + 1]
              childDepth == Len(s.stack)
          IN IF withinMaxDist(childDepth, s.maxDist) /\ child \notin s.marks
             THEN [hull |-> IF reachedMinDist(childDepth, s.minDist)
                               /\ targetMatches(s.target, child)
                            THEN insertIntoMap(s.hull, s.cur, child) ELSE s.hull,
                   marks |-> s.marks \cup {child},
                   stack |-> IF child \in DOMAIN s.edges
                             THEN Append(advanced, [key |-> child, pos |-> 1])
                             ELSE advanced]
             ELSE [hull |-> s.hull, marks |-> s.marks, stack |-> advanced]

\* One iteration of the stack loop of TransitivePathFallback::transitiveHull
\* (after the cancellation check). s holds edges, hull, marks, stack, the
\* current start node cur, target, minDist, maxDist and rank; a stack frame
\* is the key whose target set is iterated and the position in it.
FallbackStep(s) ==
  LET top == s.stack[Len(s.stack)]
      nodeEdges == IterOrder(s.edges[top.key], s.rank)
  IN IF top.pos > Len(nodeEdges)
     THEN [hull |-> s.hull, marks |-> s.marks,
           stack |-> SubSeq(s.stack, 1, Len(s.stack) - 1)]
     ELSE LET child == nodeEdges[top.pos]
              advanced == [s.stack EXCEPT ![Len(s.stack)].pos = @ + 1]
              childDepth == Len(s.stack)
          IN IF withinMaxDist(childDepth, s.maxDist) /\ child \notin s.marks
             THEN [hull |-> IF reachedMinDist(childDepth, s.minDist)
                               /\ targetMatches(s.target, child)
                            THEN insertIntoMap(s.hull, s.cur, child) ELSE s.hull,
                   marks |-> IF reachedMinDist(childDepth, s.minDist)
                             THEN s.marks \cup {child} ELSE s.marks,
                   stack |-> IF child \in DOMAIN s.edges
                             THEN Append(advanced, [key |-> child, pos |-> 1])
                             ELSE advanced]
             ELSE [hull |-> s.hull, marks |-> s.marks, stack |-> advanced]

\* Variant of BinSearchStep: a node is marked at every depth.
BinSearchStep_markAll(s) ==
  LET top == s.stack[Len(s.stack)]
      popped == SubSeq(s.stack, 1, Len(s.stack) - 1)
      succ == successors(s.edges, top.node)
  IN IF withinMaxDist(top.steps, s.maxDist) /\ top.node \notin s.marks
     THEN [hull |-> IF reachedMinDist(top.steps, s.minDist)
                       /\ targetMatches(s.target, top.node)
                    THEN insertIntoMap(s.hull, s.cur, top.node) ELSE s.hull,
           marks |-> s.marks \cup {top.node},
           stack |-> popped \o [i \in 1..Len(succ) |->
                                  [node |-> succ[i], steps |-> top.steps + 1]]]
     ELSE [hull |-> s.hull, marks |-> s.marks, stack |-> popped]

\* One iteration of the stack loop of TransitivePathBinSearch::transitiveHull
\* (after the cancellation check); a stack frame is a node and its distance.
BinSearchStep(s) ==
  LET top == s.stack[Len(s.stack)]
      popped == SubSeq(s.stack, 1, Len(s.stack) - 1)
      succ == successors(s.edges, top.node)
  IN IF withinMaxDist(top.steps, s.maxDist) /\ top.node \notin s.marks
     THEN [hull |-> IF reachedMinDist(top.steps, s.minDist)
                       /\ targetMatches(s.target, top.node)
                    THEN insertIntoMap(s.hull, s.cur, top.node) ELSE s.hull,
           marks |-> IF reachedMinDist(top.steps, s.minDist)
                     THEN s.marks \cup {top.node} ELSE s.marks,
           stack |-> popped \o [i \in 1..Len(succ) |->
                                  [node |-> succ[i], steps |-> top.steps + 1]]]
     ELSE [hull |-> s.hull, marks |-> s.marks, stack |-> popped]

\* Variant of FallbackStart: the pair (start, start) is not entered.
FallbackStart_noReflexive(s, startNode) ==
  [hull |-> s.hull,
   marks |-> {},
   stack |-> IF startNode \in DOMAIN s.edges
             THEN Append(s.stack, [key |-> startNode, pos |-> 1])
             ELSE s.stack]

\* The body of the loop over the start nodes before the stack loop, for a
\* start node that is not yet a key of the hull (Fallback).
FallbackStart(s, startNode) ==
  [hull |-> IF s.minDist = 0 /\ targetMatches(s.target, startNode)
            THEN insertIntoMap(s.hull, startNode, startNode) ELSE s.hull,
   marks |-> {},
   stack |-> IF startNode \in DOMAIN s.edges
             THEN Append(s.stack, [key |-> startNode, pos |-> 1])
             ELSE s.stack]

\* The same for BinSearch: the start node itself is pushed at distance 0.
BinSearchStart(s, startNode) ==
  [hull |-> IF s.minDist = 0 /\ targetMatches(s.target, startNode)
            THEN insertIntoMap(s.hull, startNode, startNode) ELSE s.hull,
   marks |-> {},
   stack |-> <<[node |-> startNode, steps |-> 0]>>]

\* One iteration of the stack loop of TransitivePath::transitiveHull, which
\* has no target parameter and no cancellation check: a child that does not
\* match the right side is entered under its own key when the left side
\* is a variable or equals it.
LegacyStep(s) ==
  LET top == s.stack[Len(s.stack)]
      nodeEdges == IterOrder(s.edges[top.key], s.rank)
  IN IF top.pos > Len(nodeEdges)
     THEN [hull |-> s.hull, marks |-> s.marks,
           stack |-> SubSeq(s.stack, 1, Len(s.stack) - 1)]
     ELSE LET child == nodeEdges[top.pos]
              advanced == [s.stack EXCEPT ![Len(s.stack)].pos = @ + 1]
              childDepth == Len(s.stack)
          IN IF withinMaxDist(childDepth, s.maxDist) /\ child \notin s.marks
             THEN [hull |-> IF ~reachedMinDist(childDepth, s.minDist) THEN s.hull
                            ELSE IF isVariable(s.rhs) \/ child = s.rhs.id
                            THEN insertIntoMap(s.hull, s.cur, child)
                            ELSE IF isVariable(s.lhs) \/ child = s.lhs.id
                            THEN insertIntoMap(s.hull, child, s.cur)
                            ELSE s.hull,
                   marks |-> IF reachedMinDist(childDepth, s.minDist)
                             THEN s.marks \cup {child} ELSE s.marks,
                   stack |-> IF child \in DOMAIN s.edges
                             THEN Append(advanced, [key |-> child, pos |-> 1])
                             ELSE advanced]
             ELSE [hull |-> s.hull, marks |-> s.marks, stack |-> advanced]

\* The body of its loop over the start nodes before the stack loop.
LegacyStart(s, startNode) ==
  [hull |-> IF s.minDist = 0
            THEN insertIntoMap(s.hull, startNode, startNode) ELSE s.hull,
   marks |-> {},
   stack |-> IF startNode \in DOMAIN s.edges
             THEN Append(s.stack, [key |-> startNode, pos |-> 1])
             ELSE s.stack]

\* TransitivePath::setupEdgesMap: the map of all rows, row by row.
RECURSIVE setupEdgesMap(_, _, _)
setupEdgesMap(sub, startCol, targetCol) ==
  IF sub = <<>> THEN EmptyMap
  ELSE insertIntoMap(setupEdgesMap(SubSeq(sub, 1, Len(sub) - 1), startCol, targetCol),
                     sub[Len(sub)][startCol + 1], sub[Len(sub)][targetCol + 1])

\* ------------------------------------------------------- materialisation
\* Variant of copyColumns: skipCol is copied like every other column.
RECURSIVE copyColumns_noSkip(_, _, _, _, _)
copyColumns_noSkip(inputRow, outputRow, inCol, outCol, skipCol) ==
  IF ~(inCol < Len(inputRow) /\ outCol < Len(outputRow)) THEN outputRow
  ELSE copyColumns_noSkip(inputRow, [outputRow EXCEPT ![outCol + 1] = inputRow[inCol + 1]],
                          inCol + 1, outCol + 1, skipCol)

\* copyColumns: the columns of the input row but skipCol, to the output
\* columns 2, 3, ... as long as both tables have columns left.
RECURSIVE copyColumns(_, _, _, _, _)
copyColumns(inputRow, outputRow, inCol, outCol, skipCol) ==
  IF ~(inCol < Len(inputRow) /\ outCol < Len(outputRow)) THEN outputRow
  ELSE IF skipCol = inCol
       THEN copyColumns(inputRow, outputRow, inCol + 1, outCol, skipCol)
  ELSE copyColumns(inputRow, [outputRow EXCEPT ![outCol + 1] = inputRow[inCol + 1]],
                   inCol + 1, outCol + 1, skipCol)

\* table.emplace_back() of a table of the given width.
NewRow(width) == [c \in 1..width |-> Uninit]

\* The rows emitted for one key of the hull.
RowsOf(width, node, linked, startSideCol, targetSideCol) ==
  [j \in 1..Len(linked) |->
     [NewRow(width) EXCEPT ![startSideCol + 1] = node,
                           ![targetSideCol + 1] = linked[j]]]

\* fillTableWithHull, start side not bound: one row per entry of the hull.
RECURSIVE fillTableWithHull(_, _, _, _, _, _)
fillTableWithHull(width, hull, keys, startSideCol, targetSideCol, rank) ==
  IF keys = <<>> THEN <<>>
  ELSE RowsOf(width, Head(keys), IterOrder(hull[Head(keys)], rank),
              startSideCol, targetSideCol)
       \o fillTableWithHull(width, hull, Tail(keys), startSideCol, targetSideCol, rank)

\* fillTableWithHull, start side bound: for row i of the start side table,
\* one row per target of its node, with the other columns of row i copied.
RECURSIVE fillTableWithHullBound(_, _, _, _, _, _, _, _, _)
fillTableWithHullBound(width, hull, nodes, i, startSideCol, targetSideCol, startSideTable, skipCol, rank) ==
  IF i > Len(nodes) THEN <<>>
  ELSE (IF nodes[i] \notin DOMAIN hull THEN <<>>
        ELSE LET rows == RowsOf(width, nodes[i], IterOrder(hull[nodes[i]], rank),
                                startSideCol, targetSideCol)
             IN [j \in 1..Len(rows) |->
                   copyColumns(startSideTable[i], rows[j], 0, 2, skipCol)])
       \o fillTableWithHullBound(width, hull, nodes, i + 1, startSideCol,
                                  targetSideCol, startSideTable, skipCol, rank)

\* ------------------------------------------------------------------ state
VARIABLES
  tables,          \* the result table of every plan: "sub", "p1", "p2", "p3"
  hashRank,        \* the iteration order of the hash containers
  heap,            \* the operator objects, by address
  this,            \* address of the operator computeResult runs on
  impl,            \* the implementation that runs: Fallback, BinSearch, Legacy
  cancelFlag,      \* the cancellation handle of the operation
  pc,              \* position of the call
  dir,             \* the start side chosen: "lhs" or "rhs"
  subRes,          \* result of the edge sub-plan
  sideRes,         \* result of the start side's feeder (bound start)
  rowIdx,          \* next row of setupEdgesMap
  edges,           \* the edge map
  nodes,           \* the start nodes
  nodeIdx,         \* next start node of transitiveHull
  cur,             \* currentStartNode
  hull, marks, stack,
  table,           \* the IdTable of the call
  err,             \* the failure the call ended with, or "none"
  getResultCalls,  \* number of getResult calls made on upstream plans
  results,         \* the tables returned so far: implementation, operator, table
  argv,            \* TurtleParserMain: the options of the command line
  optind,          \* next option getopt_long returns
  inputFile, outputFile, fileFormat,
  triples,         \* the triples the parser reads from the input
  ofOk,            \* whether std::ofstream opens the output file
  log,             \* the messages logged to std::cerr
  parser,          \* the parser writeNT instantiated
  linePos,         \* next triple getLine yields
  out,             \* the lines written
  sink,            \* where the lines go: "file" or "stdout"
  exitCode,        \* exit status of the process
  mainPc,          \* position of main
  block,           \* LocatedTriplesTest: the block, as it comes from an index scan
  locatedTriples,  \* the vector given to makeLocatedTriplesPerBlock
  addIdx,          \* next element of that vector
  locatedTriplesPerBlock,  \* the located triples added so far
  mergeArgs,       \* the arguments of the last mergeTriples call
  merged,          \* the result table of that call
  ltPc,            \* position of the test
  idMapping,       \* an IdMapping object: idMap_, indexMap_, nextIndex_
  addIdCalls,      \* the ids addId was called with, in call order
  addIdResult,     \* what the last addId call returned
  idToIndex_,      \* PathSearch: the index of every node
  indexToId_,      \* PathSearch: the node of every index
  edgeColumns,     \* the startNodes and endNodes given to buildMapping
  mapPc            \* "off", "new" or "built" (buildMapping has run)

pathVars == <<tables, hashRank, heap, this, impl, cancelFlag, pc, dir, subRes, sideRes,
              rowIdx, edges, nodes, nodeIdx, cur, hull, marks, stack, table, err,
              getResultCalls, results>>

mainVars == <<argv, optind, inputFile, outputFile, fileFormat, triples, ofOk, log,
              parser, linePos, out, sink, exitCode, mainPc>>

ltVars == <<block, locatedTriples, addIdx, locatedTriplesPerBlock, mergeArgs, merged,
            ltPc>>

mapVars == <<idMapping, addIdCalls, addIdResult, idToIndex_, indexToId_, edgeColumns,
             mapPc>>

vars == <<pathVars, mainVars, ltVars, mapVars>>

\* IdMapping{}: both containers empty, nextIndex_ = 0.
NewIdMapping == [idMap_ |-> <<>>, indexMap_ |-> <<>>, nextIndex_ |-> 0]

\* No id mapping exists in the process.
IdMappingNotStarted ==
  /\ idMapping = NewIdMapping
  /\ addIdCalls = <<>>
  /\ addIdResult = 0
  /\ idToIndex_ = <<>>
  /\ indexToId_ = <<>>
  /\ edgeColumns = <<>>
  /\ mapPc = "off"

\* No located triples exist in the process.
LocatedNotStarted ==
  /\ block = <<>>
  /\ locatedTriples = <<>>
  /\ addIdx = 1
  /\ locatedTriplesPerBlock = {}
  /\ mergeArgs = <<>>
  /\ merged = <<>>
  /\ ltPc = "off"

input == <<tables, hashRank, heap, this>>

\* The operator computeResult runs on.
op == heap[this]
exec == <<dir, subRes, sideRes, rowIdx, edges, nodes, nodeIdx, cur, hull, marks,
          stack, table>>

startSide == Side(op, dir)
targetSide == Side(op, Other(dir))

\* QueryExecutionTree::getResult.
getResult(plan) ==
  IF plan.sortedOn = <<>> THEN tables[plan.id]
  ELSE SortRows(tables[plan.id], plan.sortedOn)

\* The state of the traversal as the step operators read it.
Traversal ==
  [edges |-> edges, hull |-> hull, marks |-> marks, stack |-> stack, cur |-> cur,
   target |-> TargetOf(targetSide), minDist |-> op.minDist, maxDist |-> op.maxDist,
   rank |-> hashRank, lhs |-> op.lhs, rhs |-> op.rhs]

\* checkCancellation() found the flag set: the call ends with the
\* cancellation failure and its table is dropped.
ThrowCancelled ==
  /\ pc' = "failed"
  /\ err' = "Cancelled"
  /\ table' = <<>>
  /\ UNCHANGED <<mainVars, ltVars, mapVars, input, impl, cancelFlag, dir, subRes, sideRes, rowIdx, edges, nodes,
                 nodeIdx, cur, hull, marks, stack, getResultCalls, results>>

\* Variant of setupNodes: a fixed start id is only a start node when it is
\* in a column of the sub-result.
setupNodes_present(o, d, sub, side) ==
  LET start == Side(o, d)
      target == Side(o, Other(d))
  IN IF isBoundVariable(start) THEN Column(side, start.col)
     ELSE IF ~isVariable(start)
     THEN (IF \E i \in 1..Len(sub) : start.id \in {sub[i][1], sub[i][2]}
           THEN <<start.id>> ELSE <<>>)
     ELSE Column(sub, start.subCol)
          \o (IF o.minDist = 0 THEN Column(sub, target.subCol) ELSE <<>>)

\* Variant of setupNodes: a fixed start id is a start node once for each
\* row of the relation that holds it in the column of the start side.
setupNodes_scanned(o, d, sub, side) ==
  LET start == Side(o, d)
      target == Side(o, Other(d))
      startCol == Column(sub, start.subCol)
  IN IF isBoundVariable(start) THEN Column(side, start.col)
     ELSE IF ~isVariable(start)
     THEN [k \in 1..Cardinality({ i \in 1..Len(sub) : startCol[i] = start.id }) |-> start.id]
     ELSE startCol \o (IF o.minDist = 0 THEN Column(sub, target.subCol) ELSE <<>>)

\* The start nodes of setupMapAndNodes.
setupNodes(o, d, sub, side) ==
  LET start == Side(o, d)
      target == Side(o, Other(d))
  IN IF isBoundVariable(start) THEN Column(side, start.col)
     ELSE IF ~isVariable(start) THEN <<start.id>>
     ELSE Column(sub, start.subCol)
          \o (IF o.minDist = 0 THEN Column(sub, target.subCol) ELSE <<>>)

\* computeResult of the two back-ends up to the dispatch: the empty-path
\* check, the direction, the results of the sub-plans, the empty table.
\* The subtree of a BinSearch operator is the sorted tree its constructor made.
ComputeResult ==
  /\ pc = "init"
  /\ impl \in {"Fallback", "BinSearch"}
  /\ IF op.minDist = 0 /\ ~isBoundOrId(op) /\ isVariable(op.lhs) /\ isVariable(op.rhs)
     THEN /\ pc' = "failed"
          /\ err' = "UnsupportedEmptyPath"
          /\ UNCHANGED <<exec, getResultCalls>>
     ELSE LET d == decideDirection(op, tables)
              start == Side(op, d)
              target == Side(op, Other(d))
              subtree == IF impl = "BinSearch"
                         THEN createSortedTree(op.subtree, <<start.subCol, target.subCol>>)
                         ELSE op.subtree
          IN /\ dir' = d
             /\ subRes' = getResult(subtree)
             /\ sideRes' = IF isBoundVariable(start) THEN getResult(start.tree) ELSE <<>>
             /\ getResultCalls' = getResultCalls + (IF isBoundVariable(start) THEN 2 ELSE 1)
             /\ pc' = "setup"
             /\ UNCHANGED <<err, rowIdx, edges, nodes, nodeIdx, cur, hull, marks, stack, table>>
  /\ UNCHANGED <<mainVars, ltVars, mapVars, input, impl, cancelFlag, results>>

\* Variant of SetupEdgesRow: the target is the key and the source the value.
SetupEdgesRow_swapped ==
  /\ pc = "setup"
  /\ impl = "Fallback"
  /\ rowIdx <= Len(subRes)
  /\ IF cancelFlag THEN ThrowCancelled
     ELSE /\ edges' = insertIntoMap(edges, subRes[rowIdx][targetSide.subCol + 1],
                                    subRes[rowIdx][startSide.subCol + 1])
          /\ rowIdx' = rowIdx + 1
          /\ UNCHANGED <<mainVars, ltVars, mapVars, input, impl, cancelFlag, pc, dir, subRes, sideRes, nodes,
                         nodeIdx, cur, hull, marks, stack, table, err,
                         getResultCalls, results>>

\* One iteration of the loop of TransitivePathFallback::setupEdgesMap.
SetupEdgesRow ==
  /\ pc = "setup"
  /\ impl = "Fallback"
  /\ rowIdx <= Len(subRes)
  /\ IF cancelFlag THEN ThrowCancelled
     ELSE /\ edges' = insertIntoMap(edges, subRes[rowIdx][startSide.subCol + 1],
                                    subRes[rowIdx][targetSide.subCol + 1])
          /\ rowIdx' = rowIdx + 1
          /\ UNCHANGED <<mainVars, ltVars, mapVars, input, impl, cancelFlag, pc, dir, subRes, sideRes, nodes,
                         nodeIdx, cur, hull, marks, stack, table, err,
                         getResultCalls, results>>

\* The rest of setupMapAndNodes (Fallback), once the edge map is built.
SetupNodes ==
  /\ pc = "setup"
  /\ impl = "Fallback"
  /\ rowIdx > Len(subRes)
  /\ nodes' = setupNodes(op, dir, subRes, sideRes)
  /\ pc' = "hull"
  /\ UNCHANGED <<mainVars, ltVars, mapVars, input, impl, cancelFlag, dir, subRes, sideRes, rowIdx, edges,
                 nodeIdx, cur, hull, marks, stack, table, err, getResultCalls, results>>

\* setupMapAndNodes of BinSearch: the map only refers to the two columns.
SetupBinSearch ==
  /\ pc = "setup"
  /\ impl = "BinSearch"
  /\ edges' = [startCol |-> Column(subRes, startSide.subCol),
               targetCol |-> Column(subRes, targetSide.subCol)]
  /\ nodes' = setupNodes(op, dir, subRes, sideRes)
  /\ pc' = "hull"
  /\ UNCHANGED <<mainVars, ltVars, mapVars, input, impl, cancelFlag, dir, subRes, sideRes, rowIdx,
                 nodeIdx, cur, hull, marks, stack, table, err, getResultCalls, results>>

\* One iteration of the loop over the start nodes, up to the stack loop.
StartNode ==
  /\ pc = "hull"
  /\ nodeIdx <= Len(nodes)
  /\ LET startNode == nodes[nodeIdx]
         new == CASE impl = "Fallback" -> FallbackStart(Traversal, startNode)
                  [] impl = "BinSearch" -> BinSearchStart(Traversal, startNode)
                  [] impl = "Legacy" -> LegacyStart(Traversal, startNode)
     IN /\ nodeIdx' = nodeIdx + 1
        /\ cur' = startNode
        /\ IF startNode \in DOMAIN hull
           THEN UNCHANGED <<hull, marks, stack, pc>>
           ELSE /\ hull' = new.hull
                /\ marks' = new.marks
                /\ stack' = new.stack
                /\ pc' = IF new.stack = <<>> THEN "hull" ELSE "dfs"
  /\ UNCHANGED <<mainVars, ltVars, mapVars, input, impl, cancelFlag, dir, subRes, sideRes, rowIdx, edges, nodes,
                 table, err, getResultCalls, results>>

\* Variant of DfsStep: the stack loop has no cancellation check.
DfsStep_unpolled ==
  /\ pc = "dfs"
  /\ LET new == CASE impl = "Fallback" -> FallbackStep(Traversal)
                  [] impl = "BinSearch" -> BinSearchStep(Traversal)
                  [] impl = "Legacy" -> LegacyStep(Traversal)
     IN /\ hull' = new.hull
        /\ marks' = new.marks
        /\ stack' = new.stack
        /\ pc' = IF new.stack = <<>> THEN "hull" ELSE "dfs"
        /\ UNCHANGED <<mainVars, ltVars, mapVars, input, impl, cancelFlag, dir, subRes, sideRes, rowIdx, edges,
                       nodes, nodeIdx, cur, table, err, getResultCalls, results>>

\* One iteration of the stack loop: the cancellation check (which the older
\* TransitivePath does not have), then the step.
DfsStep ==
  /\ pc = "dfs"
  /\ IF cancelFlag /\ impl # "Legacy" THEN ThrowCancelled
     ELSE LET new == CASE impl = "Fallback" -> FallbackStep(Traversal)
                       [] impl = "BinSearch" -> BinSearchStep(Traversal)
                       [] impl = "Legacy" -> LegacyStep(Traversal)
          IN /\ hull' = new.hull
             /\ marks' = new.marks
             /\ stack' = new.stack
             /\ pc' = IF new.stack = <<>> THEN "hull" ELSE "dfs"
             /\ UNCHANGED <<mainVars, ltVars, mapVars, input, impl, cancelFlag, dir, subRes, sideRes, rowIdx, edges,
                            nodes, nodeIdx, cur, table, err, getResultCalls, results>>

\* Variant of LegacyComputeResult: a fixed right side is the start side
\* before a bound side is looked for.
LegacyComputeResult_fixedFirst ==
  /\ pc = "init"
  /\ impl = "Legacy"
  /\ LET d == IF ~isVariable(op.rhs) THEN "rhs"
              ELSE IF isBoundVariable(op.lhs) THEN "lhs"
              ELSE IF isBoundVariable(op.rhs) THEN "rhs"
              ELSE "lhs"
         start == Side(op, d)
     IN /\ dir' = d
        /\ subRes' = getResult(op.subtree)
        /\ sideRes' = IF isBoundVariable(start) THEN getResult(start.tree) ELSE <<>>
        /\ getResultCalls' = getResultCalls + (IF isBoundVariable(start) THEN 2 ELSE 1)
  /\ pc' = "setup"
  /\ UNCHANGED <<mainVars, ltVars, mapVars, input, impl, cancelFlag, rowIdx, edges, nodes, nodeIdx, cur, hull,
                 marks, stack, table, err, results>>

\* TransitivePath::computeResult up to the dispatch: the result of the edge
\* sub-plan is requested first; a bound side is the start side, the left one
\* first; otherwise a fixed right side is, and else the left side.
LegacyComputeResult ==
  /\ pc = "init"
  /\ impl = "Legacy"
  /\ LET d == IF isBoundVariable(op.lhs) THEN "lhs"
              ELSE IF isBoundVariable(op.rhs) THEN "rhs"
              ELSE IF ~isVariable(op.rhs) THEN "rhs"
              ELSE "lhs"
         start == Side(op, d)
     IN /\ dir' = d
        /\ subRes' = getResult(op.subtree)
        /\ sideRes' = IF isBoundVariable(start) THEN getResult(start.tree) ELSE <<>>
        /\ getResultCalls' = getResultCalls + (IF isBoundVariable(start) THEN 2 ELSE 1)
  /\ pc' = "setup"
  /\ UNCHANGED <<mainVars, ltVars, mapVars, input, impl, cancelFlag, rowIdx, edges, nodes, nodeIdx, cur, hull,
                 marks, stack, table, err, results>>

\* TransitivePath::setupMapAndNodes.
LegacySetup ==
  /\ pc = "setup"
  /\ impl = "Legacy"
  /\ edges' = setupEdgesMap(subRes, startSide.subCol, targetSide.subCol)
  /\ nodes' = setupNodes(op, dir, subRes, sideRes)
  /\ pc' = "hull"
  /\ UNCHANGED <<mainVars, ltVars, mapVars, input, impl, cancelFlag, dir, subRes, sideRes, rowIdx,
                 nodeIdx, cur, hull, marks, stack, table, err, getResultCalls, results>>

\* transitiveHull returned: fillTableWithHull, and the call returns the table.
FillTable ==
  /\ pc = "hull"
  /\ nodeIdx > Len(nodes)
  /\ table' = IF isBoundVariable(startSide)
              THEN fillTableWithHullBound(op.resultWidth, hull, nodes, 1,
                                          startSide.outputCol, targetSide.outputCol,
                                          sideRes, startSide.col, hashRank)
              ELSE fillTableWithHull(op.resultWidth, hull, IterOrder(DOMAIN hull, hashRank),
                                     startSide.outputCol, targetSide.outputCol, hashRank)
  /\ pc' = "done"
  /\ results' = results \cup {[impl |-> impl, this |-> this, table |-> table']}
  /\ UNCHANGED <<mainVars, ltVars, mapVars, input, impl, cancelFlag, dir, subRes, sideRes, rowIdx, edges, nodes,
                 nodeIdx, cur, hull, marks, stack, err, getResultCalls>>

\* The same query is then run by the next implementation.
Fresh(i) ==
  /\ impl' = i
  /\ pc' = "init"
  /\ dir' = "lhs"
  /\ subRes' = <<>>
  /\ sideRes' = <<>>
  /\ rowIdx' = 1
  /\ edges' = EmptyMap
  /\ nodes' = <<>>
  /\ nodeIdx' = 1
  /\ cur' = 0
  /\ hull' = EmptyMap
  /\ marks' = {}
  /\ stack' = <<>>
  /\ table' = <<>>
  /\ err' = "none"
  /\ getResultCalls' = 0

NextBackend ==
  /\ pc \in {"done", "failed"}
  /\ impl = "Fallback"
  /\ Fresh("BinSearch")
  /\ UNCHANGED <<mainVars, ltVars, mapVars, input, cancelFlag, results>>

\* -------------------------------------------------- TurtleParserMain.cpp
\* Strings are sequences of characters, so that a suffix is a suffix.
MaxArgs == 3

NoExit == -1

\* Exit status of a process ended by a signal for an invalid memory access.
Crashed == 139

Ttl == <<"t", "t", "l">>

Tsv == <<"t", "s", "v">>

Nt == <<"n", "t">>

Mmap == <<"m", "m", "a", "p">>

DevStdin == <<"/", "d", "e", "v", "/", "s", "t", "d", "i", "n">>

endsWith(text, suffix) ==
  /\ Len(text) >= Len(suffix)
  /\ SubSeq(text, Len(text) - Len(suffix) + 1, Len(text)) = suffix

\* out << triple[0] << " " << triple[1] << " " << triple[2] << " .\n"
Line(triple) == <<triple[1], " ", triple[2], " ", triple[3], " .\n">>

WarnTurtle == "WARN: Could not deduce the type. Assuming the input to be turtle"

InfoDeduced == "INFO: Assuming input file format due to the extension"

InfoStdin == "INFO: Parsing from stdin"

ErrOpen == "ERROR: Error opening the output file"

ErrFormat == "ERROR: writeNT was called with unknown file format"

\* The process ends with the given status.
Exit(code) ==
  /\ exitCode' = code
  /\ mainPc' = "exit"

\* The option loop of main: one call of getopt_long.
GetOpt ==
  /\ mainPc = "getopt"
  /\ IF optind > Len(argv)
       THEN /\ mainPc' = "deduce"
            /\ UNCHANGED <<optind, inputFile, outputFile, fileFormat, exitCode>>
       ELSE LET c == argv[optind].c
                optarg == argv[optind].optarg
            IN /\ optind' = optind + 1
               /\ inputFile' = IF c = "i" THEN optarg ELSE inputFile
               /\ outputFile' = IF c = "o" THEN optarg ELSE outputFile
               /\ fileFormat' = IF c = "F" THEN optarg ELSE fileFormat
               /\ IF c = "h" THEN Exit(0)
                  ELSE IF c \in {"i", "o", "F"} THEN UNCHANGED <<exitCode, mainPc>>
                  ELSE Exit(1)
  /\ UNCHANGED <<pathVars, ltVars, mapVars, argv, triples, ofOk, log, parser, linePos, out, sink>>

\* The deduction of the format from the extension of the input file.
DeduceFormat ==
  /\ mainPc = "deduce"
  /\ IF fileFormat = <<>>
       THEN IF endsWith(inputFile, <<".">> \o Tsv)
              THEN fileFormat' = Tsv /\ log' = Append(log, InfoDeduced)
            ELSE IF endsWith(inputFile, <<".">> \o Nt)
              THEN fileFormat' = Nt /\ log' = Append(log, InfoDeduced)
            ELSE IF endsWith(inputFile, <<".">> \o Ttl)
              THEN fileFormat' = Ttl /\ log' = Append(log, InfoDeduced)
            ELSE fileFormat' = fileFormat /\ log' = Append(log, WarnTurtle)
       ELSE UNCHANGED <<fileFormat, log>>
  /\ mainPc' = "input"
  /\ UNCHANGED <<pathVars, ltVars, mapVars, argv, optind, inputFile, outputFile, triples, ofOk, parser,
                 linePos, out, sink, exitCode>>

\* The input file, and the message that streams argv[1]: with no word on the
\* command line argv[1] is the null pointer, and streaming it is undefined.
ResolveInput ==
  /\ mainPc = "input"
  /\ \E survives \in (IF argv = <<>> THEN BOOLEAN ELSE {TRUE}) :
       IF survives
         THEN /\ inputFile' = IF inputFile = <<>> \/ inputFile = <<"-">>
                                THEN DevStdin ELSE inputFile
              /\ log' = IF inputFile = <<>> \/ inputFile = <<"-">>
                          THEN Append(log, InfoStdin) ELSE log
              /\ mainPc' = "open"
              /\ UNCHANGED exitCode
         ELSE /\ Exit(Crashed)
              /\ UNCHANGED <<inputFile, log>>
  /\ UNCHANGED <<pathVars, ltVars, mapVars, argv, optind, outputFile, fileFormat, triples, ofOk, parser,
                 linePos, out, sink>>

\* The output stream: the named file or std::cout.
OpenOutput ==
  /\ mainPc = "open"
  /\ IF outputFile # <<>>
       THEN IF ~ofOk
              THEN /\ log' = Append(log, ErrOpen)
                   /\ Exit(1)
                   /\ UNCHANGED sink
              ELSE /\ sink' = "file"
                   /\ mainPc' = "writeNT"
                   /\ UNCHANGED <<log, exitCode>>
       ELSE /\ sink' = "stdout"
            /\ mainPc' = "writeNT"
            /\ UNCHANGED <<log, exitCode>>
  /\ UNCHANGED <<pathVars, ltVars, mapVars, argv, optind, inputFile, outputFile, fileFormat, triples,
                 ofOk, parser, linePos, out>>

\* writeNT: the parser for the format, or the end of the process.
writeNT ==
  /\ mainPc = "writeNT"
  /\ IF fileFormat = Ttl
       THEN parser' = "TurtleStreamParser" /\ mainPc' = "getLine" /\ UNCHANGED <<log, exitCode>>
     ELSE IF fileFormat = Tsv
       THEN parser' = "TsvParser" /\ mainPc' = "getLine" /\ UNCHANGED <<log, exitCode>>
     ELSE IF fileFormat = Nt
       THEN parser' = "NTriplesParser" /\ mainPc' = "getLine" /\ UNCHANGED <<log, exitCode>>
     ELSE IF fileFormat = Mmap
       THEN parser' = "TurtleMmapParser" /\ mainPc' = "getLine" /\ UNCHANGED <<log, exitCode>>
     ELSE /\ log' = Append(log, ErrFormat)
          /\ Exit(1)
          /\ UNCHANGED parser
  /\ UNCHANGED <<pathVars, ltVars, mapVars, argv, optind, inputFile, outputFile, fileFormat, triples,
                 ofOk, linePos, out, sink>>

\* writeNTImpl: one turn of the loop over getLine, and the return of main
\* after the last triple.
getLine ==
  /\ mainPc = "getLine"
  /\ IF linePos <= Len(triples)
       THEN /\ out' = Append(out, Line(triples[linePos]))
            /\ linePos' = linePos + 1
            /\ UNCHANGED <<exitCode, mainPc>>
       ELSE /\ Exit(0)
            /\ UNCHANGED <<out, linePos>>
  /\ UNCHANGED <<pathVars, ltVars, mapVars, argv, optind, inputFile, outputFile, fileFormat, triples,
                 ofOk, log, parser, sink>>

\* The locals of main at its entry.
MainEntry ==
  /\ optind = 1
  /\ inputFile = <<>>
  /\ outputFile = <<>>
  /\ fileFormat = <<>>
  /\ log = <<>>
  /\ parser = "none"
  /\ linePos = 1
  /\ out = <<>>
  /\ sink = "none"
  /\ exitCode = NoExit

\* No process of TurtleParserMain runs.
MainNotStarted ==
  /\ argv = <<>>
  /\ triples = <<>>
  /\ ofOk = TRUE
  /\ MainEntry
  /\ mainPc = "off"

InputNames ==
  { <<"-">>, <<"a", ".", "t", "s", "v">>, <<"a", ".", "n", "t">>,
    <<"a", ".", "t", "t", "l">>, <<"a", ".", "t", "x", "t">>, <<"n", "t">>,
    <<"a", ".", "n", "t", ".", "g", "z">> }

FormatWords == { Ttl, Tsv, Nt, Mmap, <<"x", "m", "l">> }

Options ==
  { [c |-> "h", optarg |-> <<>>], [c |-> "?", optarg |-> <<>>],
    [c |-> "o", optarg |-> <<"o">>] }
    \cup { [c |-> "i", optarg |-> n] : n \in InputNames }
    \cup { [c |-> "F", optarg |-> f] : f \in FormatWords }

Argvs == UNION { [1..n -> Options] : n \in 0..MaxArgs }

Contents ==
  { <<>>, << <<"<s>", "<p>", "<o>">> >>,
    << <<"<s>", "<p>", "<o>">>, <<"<s>", "<q>", "\"v\"">> >> }

\* No transitive path operator exists in the process of TurtleParserMain.
PathIdle ==
  /\ tables = [sub |-> <<>>, p1 |-> <<>>, p2 |-> <<>>, p3 |-> <<>>]
  /\ hashRank = [n \in Node |-> n]
  /\ heap = <<>>
  /\ this = 0
  /\ impl = "none"
  /\ cancelFlag = FALSE
  /\ pc = "idle"
  /\ dir = "lhs"
  /\ subRes = <<>>
  /\ sideRes = <<>>
  /\ rowIdx = 1
  /\ edges = EmptyMap
  /\ nodes = <<>>
  /\ nodeIdx = 1
  /\ cur = 0
  /\ hull = EmptyMap
  /\ marks = {}
  /\ stack = <<>>
  /\ table = <<>>
  /\ err = "none"
  /\ getResultCalls = 0
  /\ results = {}

InitMain ==
  /\ PathIdle
  /\ LocatedNotStarted
  /\ IdMappingNotStarted
  /\ argv \in Argvs
  /\ triples \in Contents
  /\ ofOk \in BOOLEAN
  /\ MainEntry
  /\ mainPc = "getopt"

NextMain ==
  \/ GetOpt
  \/ DeduceFormat
  \/ ResolveInput
  \/ OpenOutput
  \/ writeNT
  \/ getLine

SpecMain == InitMain /\ [][NextMain]_vars

\* ------------------------------------------------- LocatedTriplesTest.cpp
\* LocatedTriple::NO_ROW_INDEX, and the default of rowIndexInBlockEnd.
NO_ROW_INDEX == SIZE_MAX

\* std::nullopt for the id1 and id2 arguments of mergeTriples.
NoId == 0

\* LocatedTriple{blockIndex, rowIndexInBlock, id1, id2, id3, existsInIndex}
LocatedTriple(b, r, i1, i2, i3, e) == [blockIndex |-> b, rowIndexInBlock |-> r, id1 |-> i1, id2 |-> i2, id3 |-> i3, existsInIndex |-> e]

\* The order of the located triples of one block: by row index, then by ids.
LocatedLeq(x, y) ==
  RowLeq(<<x.rowIndexInBlock, x.id1, x.id2, x.id3>>,
         <<y.rowIndexInBlock, y.id1, y.id2, y.id3>>, <<0, 1, 2, 3>>)

RECURSIVE InLocatedOrder(_)
\* The located triples of a set in the order the set iterates them.
InLocatedOrder(S) ==
  IF S = {} THEN <<>>
  ELSE LET x == CHOOSE x \in S : \A y \in S : LocatedLeq(x, y)
       IN <<x>> \o InLocatedOrder(S \ {x})

\* The located triples of a block that a mergeTriples call looks at.
Matching(perBlock, blockIndex, id1, id2, rowBegin, rowEnd) ==
  { lt \in perBlock :
      /\ lt.blockIndex = blockIndex
      /\ id1 = NoId \/ lt.id1 = id1
      /\ id2 = NoId \/ lt.id2 = id2
      /\ rowBegin <= lt.rowIndexInBlock
      /\ lt.rowIndexInBlock < rowEnd }

\* The row of the result a located triple is written to.
ResultRow(lt, numColumns) == IF numColumns = 2 THEN <<lt.id2, lt.id3>> ELSE <<lt.id3>>

RECURSIVE MergeFrom_after(_, _, _, _, _)
\* Variant of MergeFrom: the triples to insert follow the row they are
\* located at.
MergeFrom_after(M, blk, numColumns, rowIndex, rowEnd) ==
  IF rowIndex >= rowEnd \/ rowIndex >= Len(blk) THEN <<>>
  ELSE LET here == { lt \in M : lt.rowIndexInBlock = rowIndex }
           ins == InLocatedOrder({ lt \in here : ~lt.existsInIndex })
           del == \E lt \in here : lt.existsInIndex
       IN (IF del THEN <<>> ELSE <<blk[rowIndex + 1]>>)
          \o [k \in 1..Len(ins) |-> ResultRow(ins[k], numColumns)]
          \o MergeFrom_after(M, blk, numColumns, rowIndex + 1, rowEnd)

RECURSIVE MergeFrom(_, _, _, _, _)
\* The rows written from row index rowIndex on: before each row of the block
\* the triples to insert located at it, then the row unless a triple located
\* at it deletes it.
MergeFrom(M, blk, numColumns, rowIndex, rowEnd) ==
  IF rowIndex >= rowEnd \/ rowIndex >= Len(blk) THEN <<>>
  ELSE LET here == { lt \in M : lt.rowIndexInBlock = rowIndex }
           ins == InLocatedOrder({ lt \in here : ~lt.existsInIndex })
           del == \E lt \in here : lt.existsInIndex
       IN [k \in 1..Len(ins) |-> ResultRow(ins[k], numColumns)]
          \o (IF del THEN <<>> ELSE <<blk[rowIndex + 1]>>)
          \o MergeFrom(M, blk, numColumns, rowIndex + 1, rowEnd)

\* LocatedTriplesPerBlock::mergeTriples(blockIndex, block, result, 0, id1,
\* id2, rowIndexInBlockBegin, rowIndexInBlockEnd).
mergeTriples(perBlock, blockIndex, blk, numColumns, id1, id2, rowBegin, rowEnd) ==
  MergeFrom(Matching(perBlock, blockIndex, id1, id2, rowBegin, rowEnd), blk, numColumns, rowBegin, rowEnd)

\* The third column of the block, as the test passes it with an id2.
blockColumnId3(blk) == [i \in 1..Len(blk) |-> <<blk[i][2]>>]

\* makeLocatedTriplesPerBlock: one turn of its loop, result.add(locatedTriple).
Add ==
  /\ ltPc = "add"
  /\ IF addIdx <= Len(locatedTriples)
       THEN /\ locatedTriplesPerBlock' = locatedTriplesPerBlock \cup {locatedTriples[addIdx]}
            /\ addIdx' = addIdx + 1
            /\ UNCHANGED ltPc
       ELSE /\ ltPc' = "merge"
            /\ UNCHANGED <<locatedTriplesPerBlock, addIdx>>
  /\ UNCHANGED <<pathVars, mainVars, mapVars, block, locatedTriples, mergeArgs, merged>>

\* One call of mergeTriples for block 1, with or without id1, id2 and a row
\* range; with an id2 the block holds the third column only. The call works
\* on a clone of the block and leaves the located triples as they are.
MergeTriples ==
  /\ ltPc = "merge"
  /\ \E id1 \in {NoId} \cup { lt.id1 : lt \in locatedTriplesPerBlock } :
     \E id2 \in {NoId} \cup { lt.id2 : lt \in { x \in locatedTriplesPerBlock : x.id1 = id1 } } :
     \E rowBegin \in 0..Len(block) :
     \E rowEnd \in (rowBegin..Len(block)) \cup {NO_ROW_INDEX} :
       LET numColumns == IF id2 = NoId THEN 2 ELSE 1
           blk == IF id2 = NoId THEN block ELSE blockColumnId3(block)
       IN /\ mergeArgs' = <<id1, id2, rowBegin, rowEnd>>
          /\ merged' = mergeTriples(locatedTriplesPerBlock, 1, blk, numColumns, id1, id2, rowBegin, rowEnd)
  /\ ltPc' = "merged"
  /\ UNCHANGED <<pathVars, mainVars, mapVars, block, locatedTriples, addIdx, locatedTriplesPerBlock>>

\* The block and the located triples of TEST_F(LocatedTriplesTest, mergeTriples).
TestBlock == <<<<10, 10>>, <<15, 20>>, <<15, 30>>, <<20, 10>>, <<30, 20>>, <<30, 30>>>>

TestLocatedTriples ==
  << LocatedTriple(1, 0, 1, 10, 10, TRUE),
     LocatedTriple(1, 1, 1, 10, 11, FALSE),
     LocatedTriple(1, 1, 2, 11, 10, FALSE),
     LocatedTriple(1, 4, 2, 21, 11, FALSE),
     LocatedTriple(1, 4, 2, 30, 10, FALSE),
     LocatedTriple(1, 4, 2, 30, 20, TRUE),
     LocatedTriple(1, 5, 3, 30, 30, TRUE) >>

\* The triples of the generated inputs, as (id1, id2, id3); their order is
\* also the order of their (id2, id3).
GenTriples == <<<<1, 1, 1>>, <<1, 1, 2>>, <<2, 2, 1>>, <<2, 2, 2>>>>

\* The rows of the block that holds the triples with the indices in B.
BlockOf(B) ==
  LET F[k \in 0..Len(GenTriples)] ==
        IF k = 0 THEN <<>>
        ELSE IF k \in B THEN Append(F[k - 1], <<GenTriples[k][2], GenTriples[k][3]>>)
        ELSE F[k - 1]
  IN F[Len(GenTriples)]

\* The triple with index k located in the block of B: at the row of the first
\* triple of the block that is not smaller; it exists in the index when that
\* row holds the triple itself.
Locate(k, B) ==
  LocatedTriple(1, Cardinality({ j \in B : j < k }), GenTriples[k][1], GenTriples[k][2], GenTriples[k][3], k \in B)

\* The vectors of located triples for the block of B: triples located at a
\* row of the block, and possibly one located in another block, in any order.
VectorsFor(B) ==
  LET located == { Locate(k, B) : k \in { j \in 1..Len(GenTriples) : \E i \in B : i >= j } }
      foreign == LocatedTriple(2, 0, 1, 1, 1, FALSE)
  IN UNION { { v \in [1..Cardinality(W) -> W] : \A i, j \in 1..Cardinality(W) : v[i] = v[j] => i = j } :
               W \in SUBSET (located \cup {foreign}) }

InitLocated ==
  /\ PathIdle
  /\ MainNotStarted
  /\ IdMappingNotStarted
  /\ \/ block = TestBlock /\ locatedTriples = TestLocatedTriples
     \/ \E B \in SUBSET (1..Len(GenTriples)) :
          /\ block = BlockOf(B)
          /\ locatedTriples \in VectorsFor(B)
  /\ addIdx = 1
  /\ locatedTriplesPerBlock = {}
  /\ mergeArgs = <<>>
  /\ merged = <<>>
  /\ ltPc = "add"

NextLocated ==
  \/ Add
  \/ MergeTriples

SpecLocated == InitLocated /\ [][NextLocated]_vars

\* ------------------------------------------------------------ the inputs
Windows == (0..MaxFiniteDist) \X ((0..MaxFiniteDist) \cup {SIZE_MAX})
FixedIds == {1}
LeftSides == {VarSide("?x", 0)} \cup {IdSide(n, 0) : n \in FixedIds}
RightSides == {VarSide("?y", 1)} \cup {IdSide(n, 1) : n \in FixedIds \cup {2}}

BaseOps ==
  { TransitivePath(SubPlan, l, r, w[1], w[2]) : l \in LeftSides, r \in RightSides,
                                                  w \in Windows }

P1 == [id |-> "p1", sortedOn |-> <<>>]
P2 == [id |-> "p2", sortedOn |-> <<>>]
P3 == [id |-> "p3", sortedOn |-> <<>>]

\* The heaps the planner can have built: an operator, and possibly the one
\* obtained from it by binding the left side to p1 or the right side to p2.
Heaps ==
  { <<b>> : b \in BaseOps }
  \cup { bindLeftSide(<<b>>, 1, P1, 1) : b \in { x \in BaseOps : isVariable(x.lhs) } }
  \cup { bindRightSide(<<b>>, 1, P2, 0) : b \in { x \in BaseOps : isVariable(x.rhs) } }

\* p1 has the same join id in rows of different payload and one row twice.
P1Tables == { <<<<10, 2>>, <<11, 1>>, <<11, 1>>, <<12, 1>>>> }
P2Tables == { <<<<3>>, <<1>>>> }
\* p3 has a payload column after its join column.
P3Table == <<<<2, 20>>, <<1, 21>>>>

HashRanks == { [n \in Node |-> n], [n \in Node |-> NumNodes + 1 - n] }

Init ==
  /\ MainNotStarted
  /\ LocatedNotStarted
  /\ IdMappingNotStarted
  /\ tables \in { [sub |-> e, p1 |-> t1, p2 |-> t2, p3 |-> P3Table] :
                    e \in EdgeRelations, t1 \in P1Tables, t2 \in P2Tables }
  /\ hashRank \in HashRanks
  /\ heap \in Heaps
  /\ this = Len(heap)
  /\ impl = "Fallback"
  /\ cancelFlag = FALSE
  /\ pc = "init"
  /\ dir = "lhs"
  /\ subRes = <<>>
  /\ sideRes = <<>>
  /\ rowIdx = 1
  /\ edges = EmptyMap
  /\ nodes = <<>>
  /\ nodeIdx = 1
  /\ cur = 0
  /\ hull = EmptyMap
  /\ marks = {}
  /\ stack = <<>>
  /\ table = <<>>
  /\ err = "none"
  /\ getResultCalls = 0
  /\ results = {}

Next ==
  \/ ComputeResult
  \/ SetupEdgesRow
  \/ SetupNodes
  \/ SetupBinSearch
  \/ StartNode
  \/ DfsStep
  \/ FillTable
  \/ NextBackend

Spec == Init /\ [][Next]_vars

\* The calls whose termination is checked: every edge relation and every
\* window, the traversal started from all sources or from one fixed id.
\* Weak fairness: a call that can take a step takes it (one logical task
\* runs computeResult to its end).
InitFair ==
  /\ Init
  /\ Len(heap) = 1
  /\ isVariable(heap[1].rhs)
  /\ hashRank = [n \in Node |-> n]

FairSpec == InitFair /\ [][Next]_vars /\ WF_vars(Next)

\* ----------------------------------------------------- the scenario graph
\* The edge relation of the scenarios of the specification, in the row order
\* given there, with both sides free and the window [2, 2]; the hash
\* containers iterate in any order of its nodes.
ScenarioEdges == <<<<1, 2>>, <<2, 3>>, <<3, 4>>, <<4, 2>>, <<2, 5>>>>

ScenarioNodes == { ScenarioEdges[i][1] : i \in DOMAIN ScenarioEdges }
                   \cup { ScenarioEdges[i][2] : i \in DOMAIN ScenarioEdges }

ScenarioRanks ==
  { r \in [ScenarioNodes -> 1..Cardinality(ScenarioNodes)] :
      \A x, y \in ScenarioNodes : x # y => r[x] # r[y] }

InitS3 ==
  /\ MainNotStarted
  /\ LocatedNotStarted
  /\ IdMappingNotStarted
  /\ tables \in { [sub |-> ScenarioEdges, p1 |-> t1, p2 |-> t2, p3 |-> P3Table] :
                    t1 \in P1Tables, t2 \in P2Tables }
  /\ hashRank \in ScenarioRanks
  /\ heap = <<TransitivePath(SubPlan, VarSide("?x", 0), VarSide("?y", 1), 2, 2)>>
  /\ this = 1
  /\ impl = "Fallback"
  /\ cancelFlag = FALSE
  /\ pc = "init"
  /\ dir = "lhs"
  /\ subRes = <<>>
  /\ sideRes = <<>>
  /\ rowIdx = 1
  /\ edges = EmptyMap
  /\ nodes = <<>>
  /\ nodeIdx = 1
  /\ cur = 0
  /\ hull = EmptyMap
  /\ marks = {}
  /\ stack = <<>>
  /\ table = <<>>
  /\ err = "none"
  /\ getResultCalls = 0
  /\ results = {}

SpecS3 == InitS3 /\ [][Next]_vars

\* ---------------------------------------------------------- cancellation
\* Another thread sets the cancellation flag while computeResult is building
\* the edge map or computing the hull (start nodes are still to be visited,
\* or the stack loop runs).
SetCancel ==
  /\ ~cancelFlag
  /\ \/ pc = "setup"
     \/ pc = "dfs"
     \/ pc = "hull" /\ nodeIdx <= Len(nodes)
  /\ cancelFlag' = TRUE
  /\ UNCHANGED <<mainVars, ltVars, mapVars, input, impl, pc, exec, err, getResultCalls, results>>

InitCancel ==
  /\ Init
  /\ hashRank = [n \in Node |-> n]
  /\ op.maxDist = SIZE_MAX

NextCancel ==
  \/ Next
  \/ SetCancel

SpecCancel == InitCancel /\ [][NextCancel]_vars

\* ------------------------------------- the older TransitivePath operator
\* The planner builds operators from one with bindLeftSide(p1, 1) and
\* bindRightSide(p2, 0), binding a side that is still free and never
\* building the same operator twice; the operators are then evaluated one
\* after the other in the order of their addresses.
Free(side) == isVariable(side) /\ ~isBoundVariable(side)

BindLeft ==
  /\ pc = "idle"
  /\ this = 0
  /\ \E i \in 1..Len(heap) :
       /\ Free(heap[i].lhs)
       /\ LET new == bindLeftSide(heap, i, P1, 1)
          IN /\ \A a \in 1..Len(heap) : heap[a] # new[Len(new)]
             /\ heap' = new
  /\ UNCHANGED <<mainVars, ltVars, mapVars, tables, hashRank, this, impl, cancelFlag, pc, exec, err,
                 getResultCalls, results>>

\* The right side is bound to p2 or to p3, one feeder per query.
BindRight ==
  /\ pc = "idle"
  /\ this = 0
  /\ \E i \in 1..Len(heap), rightop \in {P2, P3} :
       /\ Free(heap[i].rhs)
       /\ \A a \in 1..Len(heap) :
            isBoundVariable(heap[a].rhs) => heap[a].rhs.tree.id = rightop.id
       /\ LET new == bindRightSide(heap, i, rightop, 0)
          IN /\ \A a \in 1..Len(heap) : heap[a] # new[Len(new)]
             /\ heap' = new
  /\ UNCHANGED <<mainVars, ltVars, mapVars, tables, hashRank, this, impl, cancelFlag, pc, exec, err,
                 getResultCalls, results>>

\* getResult() on the next operator: computeResult starts on it.
Call ==
  /\ pc = "idle"
  /\ this < Len(heap)
  /\ this' = this + 1
  /\ Fresh("Legacy")
  /\ UNCHANGED <<mainVars, ltVars, mapVars, tables, hashRank, heap, cancelFlag, results>>

Return ==
  /\ pc \in {"done", "failed"}
  /\ impl = "Legacy"
  /\ pc' = "idle"
  /\ UNCHANGED <<mainVars, ltVars, mapVars, input, impl, cancelFlag, exec, err, getResultCalls, results>>

LegacyRelations == { e \in EdgeRelations : Len(e) <= MaxLegacyRows }

InitLegacy ==
  /\ MainNotStarted
  /\ LocatedNotStarted
  /\ IdMappingNotStarted
  /\ tables \in { [sub |-> e, p1 |-> t1, p2 |-> t2, p3 |-> P3Table] :
                    e \in LegacyRelations, t1 \in P1Tables, t2 \in P2Tables }
  /\ hashRank = [n \in Node |-> n]
  /\ heap \in { <<b>> : b \in BaseOps }
  /\ this = 0
  /\ impl = "Legacy"
  /\ cancelFlag = FALSE
  /\ pc = "idle"
  /\ dir = "lhs"
  /\ subRes = <<>>
  /\ sideRes = <<>>
  /\ rowIdx = 1
  /\ edges = EmptyMap
  /\ nodes = <<>>
  /\ nodeIdx = 1
  /\ cur = 0
  /\ hull = EmptyMap
  /\ marks = {}
  /\ stack = <<>>
  /\ table = <<>>
  /\ err = "none"
  /\ getResultCalls = 0
  /\ results = {}

NextLegacy ==
  \/ BindLeft
  \/ BindRight
  \/ Call
  \/ LegacyComputeResult
  \/ LegacySetup
  \/ StartNode
  \/ DfsStep
  \/ FillTable
  \/ Return

SpecLegacy == InitLegacy /\ [][NextLegacy]_vars

\* =================================================================== claims
Range(f) == { f[i] : i \in DOMAIN f }
Min(a, b) == IF a < b THEN a ELSE b
Backends == {"Fallback", "BinSearch"}

\* The edges of the relation, from the column of the left side to the column
\* of the right side.
EdgeSet(o, sub) == { <<r[o.lhs.subCol + 1], r[o.rhs.subCol + 1]>> : r \in Range(sub) }
NodesOf(E) == { e[1] : e \in E } \cup { e[2] : e \in E }

\* The nodes at the end of a walk of exactly d edges from a node of S.
RECURSIVE ReachExact(_, _, _)
ReachExact(E, S, d) ==
  IF d = 0 THEN S
  ELSE ReachExact(E, { e[2] : e \in { x \in E : x[1] \in S } }, d - 1)

\* A walk from s to t of a length in [lo, hi] exists. A shortest walk of
\* length >= lo has fewer than lo + NumNodes edges, so longer ones need not
\* be tried.
PathExists(E, s, t, lo, hi) ==
  \E d \in lo..Min(hi, lo + NumNodes) : t \in ReachExact(E, {s}, d)

\* The ids a side descriptor admits.
Admits(side, n) ==
  IF ~isVariable(side) THEN n = side.id
  ELSE IF isBoundVariable(side) THEN n \in Range(Column(tables[side.tree.id], side.col))
  ELSE TRUE

HasRow(t, c1, v1, c2, v2) == \E i \in 1..Len(t) : t[i][c1 + 1] = v1 /\ t[i][c2 + 1] = v2

Count(x, t) == Cardinality({ i \in 1..Len(t) : t[i] = x })
SameBag(t1, t2) ==
  /\ Len(t1) = Len(t2)
  /\ \A x \in Range(t1) \cup Range(t2) : Count(x, t1) = Count(x, t2)

\* C1 (soundness): every row (s, t) of the table a back-end returns is joined
\* by a walk of the edge relation whose length lies in [minDist, maxDist].
C1_Soundness ==
  (pc = "done" /\ impl \in Backends) =>
    \A i \in 1..Len(table) :
      PathExists(EdgeSet(op, tables.sub), table[i][1], table[i][2], op.minDist, op.maxDist)

C1_Witness ==
  /\ pc = "done" /\ impl = "BinSearch" /\ dir = "rhs" /\ op.minDist = 2
  /\ \E i \in 1..Len(table) : table[i][1] # table[i][2]

\* C2 (completeness): whenever a walk of a length in [minDist, maxDist] joins
\* two nodes the side descriptors admit, the pair is a row of the table.
C2_Completeness ==
  (pc = "done" /\ impl \in Backends) =>
    \A s, t \in Node :
      ( /\ Admits(op.lhs, s) /\ Admits(op.rhs, t)
        /\ PathExists(EdgeSet(op, tables.sub), s, t, op.minDist, op.maxDist) )
      => HasRow(table, 0, s, 1, t)

\* C3 (algorithm equivalence): on the same input the two back-ends return
\* the same multiset of rows.
C3_Equivalence ==
  \A r1, r2 \in results :
    (r1.this = r2.this /\ r1.impl = "Fallback" /\ r2.impl = "BinSearch")
    => SameBag(r1.table, r2.table)

\* C4 (termination): the call of the HashMap back-end ends, so that the
\* BinSearch back-end is started on the same input, and that call ends too;
\* the stack of the traversal is empty then.
C4_Termination ==
  <>(impl = "BinSearch" /\ pc \in {"done", "failed"} /\ stack = <<>>)

\* A stack loop on a cyclic relation with minDist > 1 has ended.
C4_Witness ==
  /\ pc = "done" /\ op.minDist = 2 /\ op.maxDist = SIZE_MAX
  /\ \E n \in Node : PathExists(EdgeSet(op, tables.sub), n, n, 1, NumNodes)
  /\ hull # EmptyMap

\* C5 (empty-path rejection): a computeResult call on an operator with
\* minDist = 0 and two free sides fails with UnsupportedEmptyPath before any
\* getResult call on an upstream plan; no other call fails with that error.
C5_EmptyPathRejected ==
  (pc \notin {"idle", "init"}) =>
    /\ (op.minDist = 0 /\ Free(op.lhs) /\ Free(op.rhs))
         => (pc = "failed" /\ err = "UnsupportedEmptyPath" /\ getResultCalls = 0)
    /\ err = "UnsupportedEmptyPath"
         => (op.minDist = 0 /\ Free(op.lhs) /\ Free(op.rhs))

\* C6 (row uniqueness): no row occurs twice in the table computeResult
\* returns, whatever the mode and the sub-result of the bound side.
C6_RowsUnique ==
  (pc = "done") =>
    \A i, j \in 1..Len(table) : table[i] = table[j] => i = j

\* C7 as stated (reflexive pairs): with minDist = 0 the table has the row
\* (s, s) for every node s of the edge relation the start side admits.
C7_ReflexiveAll ==
  (pc = "done" /\ impl \in Backends /\ op.minDist = 0) =>
    \A s \in NodesOf(EdgeSet(op, tables.sub)) :
      Admits(startSide, s)
      => HasRow(table, startSide.outputCol, s, targetSide.outputCol, s)

\* C7 (reflexive pairs, amended): with minDist = 0 the table a back-end
\* returns has the row (s, s) for every node s of the edge relation that the
\* start side admits and that the target side admits too (the target side is
\* a variable, or it is the fixed id s).
C7_Reflexive ==
  (pc = "done" /\ impl \in Backends /\ op.minDist = 0) =>
    \A s \in NodesOf(EdgeSet(op, tables.sub)) :
      (Admits(startSide, s) /\ targetMatches(TargetOf(targetSide), s))
      => HasRow(table, startSide.outputCol, s, targetSide.outputCol, s)

\* A bound start side gave a node that has no outgoing edge its row (s, s).
C7_Witness ==
  /\ pc = "done" /\ impl \in Backends /\ op.minDist = 0
  /\ isBoundVariable(startSide)
  /\ \E s \in NodesOf(EdgeSet(op, tables.sub)) :
       /\ Admits(startSide, s)
       /\ s \notin DOMAIN edges
       /\ HasRow(table, startSide.outputCol, s, targetSide.outputCol, s)

\* C8 (rebinding is pure): a bindLeftSide or bindRightSide call adds one
\* operator and changes no operator that exists (sides, result width,
\* variable columns, minDist, maxDist), the one it is called on included;
\* the new operator has the edge sub-plan and the distances of an existing
\* one, and no table of a plan changes.
C8_RebindingPure ==
  [][ (heap' # heap) =>
        /\ Len(heap') = Len(heap) + 1
        /\ \A a \in 1..Len(heap) : heap'[a] = heap[a]
        /\ \E a \in 1..Len(heap) :
             /\ heap'[Len(heap')].subtree = heap[a].subtree
             /\ heap'[Len(heap')].minDist = heap[a].minDist
             /\ heap'[Len(heap')].maxDist = heap[a].maxDist
        /\ tables' = tables ]_vars

\* Both sides of an operator were bound one after the other, and the
\* operators they were bound on still have the sides they had.
C8_Witness ==
  /\ Len(heap) >= 3
  /\ Free(heap[1].lhs) /\ Free(heap[1].rhs)
  /\ \E a, b \in 2..Len(heap) :
       /\ isBoundVariable(heap[a].lhs) /\ Free(heap[a].rhs)
       /\ isBoundVariable(heap[b].lhs) /\ isBoundVariable(heap[b].rhs)

\* C9 (binding order independence): binding the left side to p1 and then the
\* right side to p2 gives an operator of the same result width and variable
\* columns as binding in the other order, and the two return the same rows.
C9_BindOrderIndependent ==
  \A a, b \in 1..Len(heap) :
    ( /\ isBoundVariable(heap[a].lhs) /\ isBoundVariable(heap[a].rhs)
      /\ isBoundVariable(heap[b].lhs) /\ isBoundVariable(heap[b].rhs) )
    => /\ heap[a].resultWidth = heap[b].resultWidth
       /\ heap[a].variableColumns = heap[b].variableColumns
       /\ \A r1, r2 \in results :
            (r1.this = a /\ r2.this = b) => Range(r1.table) = Range(r2.table)

\* The places where checkCancellation() is called: the head of an iteration
\* of the stack loop, and of the row loop of the HashMap edge map.
PollPoint ==
  /\ impl \in Backends
  /\ \/ pc = "dfs"
     \/ pc = "setup" /\ impl = "Fallback" /\ rowIdx <= Len(subRes)

\* C10 as stated (cancellation): once the flag is set while the edge map is
\* built or the hull computed, the next step of the call ends it with the
\* cancellation failure, so that no table is returned with the flag set.
C10_CancelledAtOnce ==
  [][ (cancelFlag /\ pc \in {"setup", "hull", "dfs"})
        => (pc' = "failed" /\ err' = "Cancelled") ]_vars

\* C10 (cancellation, amended): a step of the call from a place where the
\* flag is polled, taken with the flag set, ends the call with the
\* cancellation failure, and no table is returned: the table of the call is
\* dropped and no result is added. A call has only failed with the
\* cancellation failure with the flag set.
C10_Cancellation ==
  [][ /\ (cancelFlag /\ PollPoint)
        => (pc' = "failed" /\ err' = "Cancelled" /\ table' = <<>> /\ results' = results)
      /\ (err' = "Cancelled") => (cancelFlag /\ pc' = "failed" /\ table' = <<>>) ]_vars

\* A traversal that had found pairs was cancelled, in either back-end.
C10_Witness ==
  /\ err = "Cancelled" /\ pc = "failed" /\ impl = "BinSearch"
  /\ hull # EmptyMap /\ table = <<>>
  /\ \E r \in results : r.impl = "Fallback"

\* The row r of the bound side without its join column.
Without(r, joinCol) ==
  [k \in 1..(Len(r) - 1) |-> IF k <= joinCol THEN r[k] ELSE r[k + 1]]

\* The output row of the join of r with the target t: the join value and t
\* in the columns of the two sides, the other columns of r from column 2 on.
JoinRow(r, joinCol, t, startCol, targetCol) ==
  [c \in 1..(Len(r) + 1) |->
     IF c = startCol + 1 THEN r[joinCol + 1]
     ELSE IF c = targetCol + 1 THEN t
     ELSE Without(r, joinCol)[c - 2]]

\* The number of output rows row i of B contributes, and the number of
\* output rows before them.
BlockSize(B, joinCol, h, i) ==
  IF B[i][joinCol + 1] \in DOMAIN h THEN Cardinality(h[B[i][joinCol + 1]]) ELSE 0

RECURSIVE Offset(_, _, _, _)
Offset(B, joinCol, h, i) ==
  IF i = 1 THEN 0
  ELSE Offset(B, joinCol, h, i - 1) + BlockSize(B, joinCol, h, i - 1)

\* C11 (bound-start materialization): with the start side bound to B, the
\* table is the join of B with the hull: the rows of B in row order, each
\* giving one row per target of hull[r[joinCol]] with the join value, the
\* target and the other columns of r in source order from column 2 on; a row
\* whose join value is no key of the hull gives none.
C11_BoundJoin ==
  (pc = "done" /\ isBoundVariable(startSide)) =>
    LET B == sideRes
        jc == startSide.col
    IN /\ Len(table) = Offset(B, jc, hull, Len(B) + 1)
       /\ \A i \in 1..Len(B) :
            { table[Offset(B, jc, hull, i) + k] : k \in 1..BlockSize(B, jc, hull, i) }
              = IF B[i][jc + 1] \in DOMAIN hull
                THEN { JoinRow(B[i], jc, t, startSide.outputCol, targetSide.outputCol) :
                         t \in hull[B[i][jc + 1]] }
                ELSE {}

\* TransitivePath::getResultWidth.
getResultWidth(o) == o.resultWidth

\* The number of columns of a feeder plan.
FeederWidth(plan) == Len(PlanVars(plan.id))

\* C12 (result width): an operator without a bound side has result width 2;
\* an operator with one bound side, bound to a feeder of w columns, has
\* result width 2 + (w - 1), and the table it returns has rows of that width;
\* with both sides bound the width is 2 + (w - 1) for one of the two feeders
\* (the one of the bind call that returned the operator).
C12_ResultWidth ==
  /\ \A a \in 1..Len(heap) :
       LET o == heap[a]
       IN /\ (~isBoundVariable(o.lhs) /\ ~isBoundVariable(o.rhs))
               => getResultWidth(o) = 2
          /\ (isBoundVariable(o.lhs) /\ ~isBoundVariable(o.rhs))
               => getResultWidth(o) = 2 + (FeederWidth(o.lhs.tree) - 1)
          /\ (~isBoundVariable(o.lhs) /\ isBoundVariable(o.rhs))
               => getResultWidth(o) = 2 + (FeederWidth(o.rhs.tree) - 1)
          /\ (isBoundVariable(o.lhs) /\ isBoundVariable(o.rhs))
               => \/ getResultWidth(o) = 2 + (FeederWidth(o.lhs.tree) - 1)
                  \/ getResultWidth(o) = 2 + (FeederWidth(o.rhs.tree) - 1)
  /\ (pc = "done" /\ ~(isBoundVariable(op.lhs) /\ isBoundVariable(op.rhs)))
       => \A i \in 1..Len(table) :
            Len(table[i]) = 2 + (IF isBoundVariable(startSide)
                                 THEN FeederWidth(startSide.tree) - 1 ELSE 0)

\* The operator with the left side bound to p1 (two columns) returned rows
\* of three columns.
C12_Witness ==
  /\ pc = "done" /\ isBoundVariable(op.lhs) /\ ~isBoundVariable(op.rhs)
  /\ getResultWidth(op) = 3
  /\ \E i \in 1..Len(table) : Len(table[i]) = 3

\* C13 (disjoint output columns): in every operator built by the constructor
\* and bindLeftSide / bindRightSide calls the variable-to-column map gives
\* every variable one column, different variables different columns, every
\* column is smaller than the result width, and the left and the right side
\* have the output columns 0 and 1 (which the map gives their variables).
C13_DisjointColumns ==
  \A a \in 1..Len(heap) :
    LET o == heap[a]
    IN /\ \A e1, e2 \in o.variableColumns : (e1[1] = e2[1]) <=> (e1[2] = e2[2])
       /\ \A e \in o.variableColumns : e[2] >= 0 /\ e[2] < getResultWidth(o)
       /\ o.lhs.outputCol = 0 /\ o.rhs.outputCol = 1
       /\ isVariable(o.lhs) => <<o.lhs.var, 0>> \in o.variableColumns
       /\ isVariable(o.rhs) => <<o.rhs.var, 1>> \in o.variableColumns

\* An operator with both sides bound has a third variable in column 2.
C13_Witness ==
  \E a \in 1..Len(heap) :
    /\ isBoundVariable(heap[a].lhs) /\ isBoundVariable(heap[a].rhs)
    /\ Cardinality(heap[a].variableColumns) = 3
    /\ <<"?a", 2>> \in heap[a].variableColumns

\* C14 (target filter): with a fixed id t as the target side, every element
\* of every entry of the hull of a back-end is t, at every point of the
\* traversal (so the reflexive entry is only there for the start node t),
\* and every row of the table has t in the output column of the target side.
C14_TargetFilter ==
  (impl \in Backends /\ pc \in {"hull", "dfs", "done"} /\ ~isVariable(targetSide)) =>
    /\ \A s \in DOMAIN hull : hull[s] \subseteq {targetSide.id}
    /\ \A i \in 1..Len(table) : table[i][targetSide.outputCol + 1] = targetSide.id

\* A walk from the fixed start to the different fixed target gave a row, and
\* the traversal passed a node that is not the target.
C14_Witness ==
  /\ impl \in Backends /\ pc = "done" /\ ~isVariable(targetSide)
  /\ startSide.id # targetSide.id
  /\ op.minDist = 0
  /\ Len(table) = 1
  /\ \E n \in NodesOf(EdgeSet(op, tables.sub)) :
       /\ n # targetSide.id
       /\ PathExists(EdgeSet(op, tables.sub), op.lhs.id, n, 1, op.maxDist)

\* C15 as stated (empty edge relation): with no row in the edge relation
\* every call that is not rejected returns the empty table.
C15_EmptyRelationEmptyTable ==
  (pc = "done" /\ impl \in Backends /\ tables.sub = <<>>) => table = <<>>

\* The start nodes the start side stands for when the edge relation is empty:
\* the fixed id, the join values of the feeder, and none for a free side.
StartIdsOfEmpty ==
  IF ~isVariable(startSide) THEN {startSide.id}
  ELSE IF isBoundVariable(startSide)
  THEN Range(Column(tables[startSide.tree.id], startSide.col))
  ELSE {}

\* C15 (empty edge relation, amended): with no row in the edge relation the
\* table of a back-end is empty when minDist >= 1; when minDist = 0 its rows
\* are the reflexive pairs (s, s) of the start nodes (the fixed start id, or
\* the join values of the bound start side) that the target side admits,
\* and every such start node has its row.
C15_EmptyRelation ==
  (pc = "done" /\ impl \in Backends /\ tables.sub = <<>>) =>
    /\ op.minDist >= 1 => table = <<>>
    /\ \A i \in 1..Len(table) :
         /\ table[i][startSide.outputCol + 1] = table[i][targetSide.outputCol + 1]
         /\ table[i][startSide.outputCol + 1] \in StartIdsOfEmpty
         /\ ~isVariable(targetSide) => table[i][targetSide.outputCol + 1] = targetSide.id
    /\ op.minDist = 0 =>
         \A s \in StartIdsOfEmpty :
           (isVariable(targetSide) \/ targetSide.id = s)
           => HasRow(table, startSide.outputCol, s, targetSide.outputCol, s)

\* The fixed id 1 on the left, minDist = 0, no edge: the table is (1, 1).
C15_Witness ==
  /\ pc = "done" /\ impl \in Backends /\ tables.sub = <<>>
  /\ op.minDist = 0 /\ ~isVariable(op.lhs) /\ isVariable(op.rhs)
  /\ table = <<<<op.lhs.id, op.lhs.id>>>>

\* C16 (empty window): with maxDist < minDist the table computeResult
\* returns is empty, for every edge relation and all sides.
C16_EmptyWindow ==
  (pc = "done" /\ op.maxDist < op.minDist) => table = <<>>

\* The call returned although a start node the start side admits has a walk
\* of minDist edges.
C16_Witness ==
  /\ pc = "done" /\ impl = "BinSearch" /\ op.maxDist < op.minDist
  /\ op.maxDist >= 1
  /\ \E s, t \in Node :
       /\ Admits(op.lhs, s) /\ Admits(op.rhs, t)
       /\ PathExists(EdgeSet(op, tables.sub), s, t, op.minDist, op.minDist)

\* The edges as the traversal follows them: from the column of the start
\* side to the column of the target side.
TraversalEdges ==
  { <<r[startSide.subCol + 1], r[targetSide.subCol + 1]>> : r \in Range(tables.sub) }

\* C17 (unbounded window): with maxDist = SIZE_MAX the hull of a back-end
\* has, for every start node s, every node that a walk of at least minDist
\* edges reaches from s: whenever such a walk joins two nodes the sides
\* admit, the pair is a row of the table, for every minDist and both orders
\* of the hash containers.
C17_UnboundedComplete ==
  (pc = "done" /\ impl \in Backends /\ op.maxDist = SIZE_MAX) =>
    /\ \A s, t \in Node :
         ( /\ Admits(op.lhs, s) /\ Admits(op.rhs, t)
           /\ PathExists(EdgeSet(op, tables.sub), s, t, op.minDist, op.maxDist) )
         => HasRow(table, 0, s, 1, t)
    /\ \A s \in DOMAIN hull, t \in Node :
         ( /\ targetMatches(TargetOf(targetSide), t)
           /\ PathExists(TraversalEdges, s, t, op.minDist, op.maxDist) )
         => t \in hull[s]

\* minDist = 2 on a relation with a cycle: a node that is first passed at
\* depth 1 is in the hull of the start node.
C17_Witness ==
  /\ pc = "done" /\ impl = "Fallback" /\ op.maxDist = SIZE_MAX /\ op.minDist = 2
  /\ hashRank[1] > hashRank[2]
  /\ ~isVariable(op.lhs) /\ isVariable(op.rhs)
  /\ <<op.lhs.id, 2>> \in EdgeSet(op, tables.sub)
  /\ HasRow(table, 0, op.lhs.id, 1, 2)

\* The pairs (left, right) of the rows of the table.
Pairs(t) == { <<t[i][1], t[i][2]>> : i \in 1..Len(t) }

\* The call of scenario S3: the scenario graph, both sides free, window [2, 2].
ScenarioS3Done ==
  /\ pc = "done" /\ impl \in Backends
  /\ tables.sub = ScenarioEdges
  /\ op.minDist = 2 /\ op.maxDist = 2
  /\ Free(op.lhs) /\ Free(op.rhs)

\* C18 as stated (scenario S3): the pairs of the table are (1,3), (2,4),
\* (3,2), (4,3) and (2,2).
C18_ScenarioS3 ==
  ScenarioS3Done =>
    Pairs(table) = { <<1, 3>>, <<2, 4>>, <<3, 2>>, <<4, 3>>, <<2, 2>> }

\* C18 (scenario S3, amended): the pairs of the table are (1,3), (1,5),
\* (2,4), (3,2), (4,3) and (4,5), which are the pairs joined by a walk of
\* exactly two edges.
C18_ScenarioS3Walks ==
  ScenarioS3Done =>
    /\ Pairs(table) = { <<1, 3>>, <<1, 5>>, <<2, 4>>, <<3, 2>>, <<4, 3>>, <<4, 5>> }
    /\ Pairs(table) = { <<x, y>> \in ScenarioNodes \X ScenarioNodes :
                          y \in ReachExact(EdgeSet(op, tables.sub), {x}, 2) }

\* The BinSearch back-end returned the six rows of the scenario.
C18_Witness ==
  ScenarioS3Done /\ impl = "BinSearch" /\ Len(table) = 6

\* A call has chosen its start side.
DirectionChosen == pc \in {"setup", "hull", "dfs", "done"}

\* Exactly one of the two sides of the operator is a fixed id.
OneFixed(o) == isVariable(o.lhs) # isVariable(o.rhs)

RECURSIVE LastArg(_, _, _)
\* The value of the last option c among the first k options, or the empty
\* string when the option is not given.
LastArg(c, k, default) ==
  IF k = 0 THEN default
  ELSE IF argv[k].c = c THEN argv[k].optarg
  ELSE LastArg(c, k - 1, default)

\* The lines writeNTImpl writes for the whole input.
Lines(ts) == [k \in 1..Len(ts) |-> Line(ts[k])]

\* The run that C20 is about: every option is one of -i, -o, -F, the output
\* opens, and the process did not end in the undefined message.
PlainRun ==
  /\ mainPc = "exit"
  /\ \A k \in 1..Len(argv) : argv[k].c \in {"i", "o", "F"}
  /\ LastArg("o", Len(argv), <<>>) = <<>> \/ ofOk
  /\ exitCode # Crashed

\* No --file-format is given and the name of the input file ends in none of
\* .tsv, .nt, .ttl.
NothingToDeduce ==
  /\ \A k \in 1..Len(argv) : argv[k].c # "F"
  /\ \A f \in {Tsv, Nt, Ttl} : ~endsWith(LastArg("i", Len(argv), <<>>), <<".">> \o f)

\* C20 (format fallback): with no --file-format and an input name that ends
\* in none of .tsv, .nt, .ttl the program logs its warning, parses the input
\* as Turtle, writes the parsed triples and ends with status 0; it ends with
\* status 1 for an unknown format only when an unsupported format word was
\* given.
C20_FormatFallback ==
  /\ (PlainRun /\ NothingToDeduce)
       => /\ WarnTurtle \in Range(log)
          /\ parser = "TurtleStreamParser"
          /\ out = Lines(triples)
          /\ exitCode = 0
  /\ (mainPc = "exit" /\ ErrFormat \in Range(log))
       => \E k \in 1..Len(argv) :
            argv[k].c = "F" /\ argv[k].optarg \notin {Ttl, Tsv, Nt, Mmap}

\* The arguments of the four asserted calls of the test and the tables it
\* expects: all triples; id1 = 2; id1 = 2 from row 2 on; id1 = 2, id2 = 30,
\* rows 4 and 5 of the third column.
TestCalls ==
  << [args |-> <<NoId, NoId, 0, NO_ROW_INDEX>>,
      resultExpected |-> <<<<10, 11>>, <<11, 10>>, <<15, 20>>, <<15, 30>>, <<20, 10>>,
                           <<21, 11>>, <<30, 10>>>>],
     [args |-> <<2, NoId, 0, NO_ROW_INDEX>>,
      resultExpected |-> <<<<10, 10>>, <<11, 10>>, <<15, 20>>, <<15, 30>>, <<20, 10>>,
                           <<21, 11>>, <<30, 10>>, <<30, 30>>>>],
     [args |-> <<2, NoId, 2, NO_ROW_INDEX>>,
      resultExpected |-> <<<<15, 30>>, <<20, 10>>, <<21, 11>>, <<30, 10>>, <<30, 30>>>>],
     [args |-> <<2, 30, 4, 6>>,
      resultExpected |-> <<<<10>>, <<30>>>>] >>

\* The located triples a finished call looked at, and the rows of its range.
MergedMatching ==
  Matching(locatedTriplesPerBlock, 1, mergeArgs[1], mergeArgs[2], mergeArgs[3], mergeArgs[4])

MergedColumns == IF mergeArgs[2] = NoId THEN 2 ELSE 1

MergedRange == { i \in 0..(Len(block) - 1) : mergeArgs[3] <= i /\ i < mergeArgs[4] }

\* The rows of the range that no matching located triple deletes.
KeptRows ==
  LET blk == IF mergeArgs[2] = NoId THEN block ELSE blockColumnId3(block)
      kept == { i \in MergedRange :
                  ~\E lt \in MergedMatching : lt.existsInIndex /\ lt.rowIndexInBlock = i }
  IN [r \in Range(blk) |-> Cardinality({ i \in kept : blk[i + 1] = r })]

\* With an id2 the rows of the range all belong to that id2.
RangeOfId2 ==
  mergeArgs[2] = NoId \/ \A i \in MergedRange : block[i + 1][1] = mergeArgs[2]

\* C21 (mergeTriples): the result of a call holds the rows of the range that
\* no matching located triple deletes and one row for every matching triple
\* to insert, each as often as it occurs, so it has rows - deletions +
\* insertions rows; it is sorted when the range is; it depends on the set of
\* located triples only, not on the order they were added in; and for the
\* block and the located triples of the test the four calls give the tables
\* the test expects.
C21_MergeTriples ==
  ltPc = "merged" =>
    LET ins == { lt \in MergedMatching : ~lt.existsInIndex }
        del == { lt \in MergedMatching : lt.existsInIndex }
        cols == IF MergedColumns = 2 THEN <<0, 1>> ELSE <<0>>
    IN /\ Len(merged) = Cardinality(MergedRange) - Cardinality(del) + Cardinality(ins)
       /\ \A r \in Range(merged) \cup DOMAIN KeptRows \cup { ResultRow(lt, MergedColumns) : lt \in ins } :
            Count(r, merged) = (IF r \in DOMAIN KeptRows THEN KeptRows[r] ELSE 0)
                               + Cardinality({ lt \in ins : ResultRow(lt, MergedColumns) = r })
       /\ RangeOfId2 => IsSortedOn(merged, cols)
       /\ locatedTriplesPerBlock = Range(locatedTriples)
       /\ \A k \in 1..Len(TestCalls) :
            (block = TestBlock /\ mergeArgs = TestCalls[k].args)
               => merged = TestCalls[k].resultExpected

\* The first call of the test has returned its seven rows, or the fourth its
\* two rows of the third column.
C21_Witness ==
  /\ ltPc = "merged"
  /\ \/ block = TestBlock /\ mergeArgs = TestCalls[1].args /\ Len(merged) = 7
     \/ block = TestBlock /\ mergeArgs = TestCalls[4].args /\ Len(merged) = 2

\* The node and the depth the next iteration of the stack loop looks at: the
\* next child of the top frame (Fallback), or the popped frame (BinSearch).
Popped ==
  IF pc # "dfs" \/ cancelFlag \/ impl = "Legacy" THEN [has |-> FALSE, node |-> 0, depth |-> 0]
  ELSE LET top == stack[Len(stack)] IN
       IF impl = "BinSearch" THEN [has |-> TRUE, node |-> top.node, depth |-> top.steps]
       ELSE LET nodeEdges == IterOrder(edges[top.key], hashRank) IN
            IF top.pos > Len(nodeEdges) THEN [has |-> FALSE, node |-> 0, depth |-> 0]
            ELSE [has |-> TRUE, node |-> nodeEdges[top.pos], depth |-> Len(stack)]

\* That node is processed: it is within maxDist and not in the visited set.
Processed == Popped.has /\ Popped.depth <= op.maxDist /\ Popped.node \notin marks

\* C22 as stated (visited marking): a child popped at depth d <= maxDist that
\* is not in the visited set is put into it, whether or not d >= minDist.
C22_MarkedAtEveryDepth ==
  [][Processed => Popped.node \in marks']_vars

\* C22 (visited marking, amended): a child popped at depth d <= maxDist that
\* is not in the visited set is put into it exactly if d >= minDist; below
\* minDist the visited set stays as it is, and nothing else changes it
\* during the traversal from one start node.
C22_VisitedMarking ==
  [][pc = "dfs" /\ pc' # "failed" =>
       marks' = IF Processed /\ Popped.depth >= op.minDist
                THEN marks \cup {Popped.node} ELSE marks]_vars

\* The Fallback traversal processes, at a depth >= minDist, a child whose
\* frame already lies on the stack: it was expanded unmarked below minDist
\* and is expanded again for the same start node.
C22_Witness ==
  /\ impl = "Fallback" /\ Processed
  /\ Popped.depth >= op.minDist
  /\ \E k \in 2..Len(stack) : stack[k].key = Popped.node

\* The stack loop and the loop head of the implementation i.
StepOf(i, s) ==
  CASE i = "Fallback" -> FallbackStep(s)
    [] i = "BinSearch" -> BinSearchStep(s)
    [] i = "Legacy" -> LegacyStep(s)

StartOf(i, s, startNode) ==
  CASE i = "Fallback" -> FallbackStart(s, startNode)
    [] i = "BinSearch" -> BinSearchStart(s, startNode)
    [] i = "Legacy" -> LegacyStart(s, startNode)

RECURSIVE RunStack(_, _)
\* The stack loop run until the stack is empty.
RunStack(i, s) ==
  IF s.stack = <<>> THEN s
  ELSE LET new == StepOf(i, s)
       IN RunStack(i, [s EXCEPT !.hull = new.hull, !.marks = new.marks, !.stack = new.stack])

RECURSIVE HullFrom(_, _, _)
\* The loop over the start nodes: a start node that is a key of the hull is
\* skipped.
HullFrom(i, s, startNodes) ==
  IF startNodes = <<>> THEN s.hull
  ELSE LET n == Head(startNodes) IN
       IF n \in DOMAIN s.hull THEN HullFrom(i, s, Tail(startNodes))
       ELSE LET new == StartOf(i, s, n)
                s1 == [s EXCEPT !.hull = new.hull, !.marks = new.marks,
                                !.stack = new.stack, !.cur = n]
            IN HullFrom(i, RunStack(i, s1), Tail(startNodes))

\* transitiveHull(edges, startNodes, target) of the running call, as a
\* function of the start list.
transitiveHull(startNodes) ==
  HullFrom(impl, [Traversal EXCEPT !.hull = EmptyMap, !.marks = {}, !.stack = <<>>], startNodes)

RECURSIVE Dedup(_)
\* A list without the repetitions of its elements.
Dedup(l) ==
  IF l = <<>> THEN <<>>
  ELSE LET d == Dedup(SubSeq(l, 1, Len(l) - 1))
       IN IF l[Len(l)] \in Range(d) THEN d ELSE Append(d, l[Len(l)])

\* The lists with the elements of l in every order.
Reorderings(l) ==
  { [k \in 1..Len(l) |-> l[f[k]]] :
      f \in { g \in [1..Len(l) -> 1..Len(l)] : \A a, b \in 1..Len(l) : g[a] = g[b] => a = b } }

\* The set a hull holds for a key, empty when the key is absent.
HullOf(h, key) == IF key \in DOMAIN h THEN h[key] ELSE {}

\* C23 (memoization across start nodes): the hull a call has computed for
\* its start list is the hull for that list without repetitions and for
\* that list in any order, and what it holds for a start node is what the
\* hull for that start node alone holds.
C23_StartListIndependent ==
  pc = "done" =>
    /\ hull = transitiveHull(nodes)
    /\ hull = transitiveHull(Dedup(nodes))
    /\ \A l \in Reorderings(nodes) : hull = transitiveHull(l)
    /\ \A n \in Range(nodes) : HullOf(hull, n) = HullOf(transitiveHull(<<n>>), n)

\* The rows of the edge relation that setupEdgesMap has gone through.
RowsInMap ==
  IF impl = "Fallback" /\ pc = "setup" THEN SubSeq(subRes, 1, rowIdx - 1) ELSE subRes

\* C24 (HashMap edge-map builder): while and after setupEdgesMap runs, t is
\* in edges[s] exactly if a row it has gone through holds s in the column of
\* the start side and t in the column of the target side, and no key has an
\* empty set; so the map is given by the set of these rows, and a row that
\* occurs again adds nothing.
C24_EdgesMap ==
  ( /\ impl \in {"Fallback", "Legacy"}
    /\ pc \in {"setup", "hull", "dfs", "done"}
    /\ ~(impl = "Legacy" /\ pc = "setup") ) =>
    /\ \A s, t \in Node :
         (s \in DOMAIN edges /\ t \in edges[s])
           <=> \E i \in 1..Len(RowsInMap) :
                 /\ RowsInMap[i][startSide.subCol + 1] = s
                 /\ RowsInMap[i][targetSide.subCol + 1] = t
    /\ \A s \in DOMAIN edges : edges[s] # {}
    /\ DOMAIN edges \subseteq Node

\* The map of a relation that holds a row twice and another row is built: one
\* key with two targets.
C24_Witness ==
  /\ impl = "Fallback" /\ pc = "hull" /\ Len(subRes) = 3
  /\ subRes[1] = subRes[2] /\ subRes[2] # subRes[3]
  /\ \E s \in DOMAIN edges : Cardinality(edges[s]) = 2

\* One side of the operator is a fixed id and the other a free variable.
FixedAndFree(o) ==
  \/ ~isVariable(o.lhs) /\ Free(o.rhs)
  \/ ~isVariable(o.rhs) /\ Free(o.lhs)

\* C25 (reflexive pair of an absent fixed endpoint): with minDist = 0, a
\* fixed id x on one side and a free variable on the other, the table a
\* back-end returns has the row (x, x), whether or not x is a node of the
\* edge relation.
C25_FixedReflexive ==
  (pc = "done" /\ impl \in Backends /\ op.minDist = 0 /\ FixedAndFree(op)) =>
    LET x == IF isVariable(op.lhs) THEN op.rhs.id ELSE op.lhs.id
    IN HasRow(table, 0, x, 1, x)

\* The fixed id is no node of a non-empty edge relation, and (x, x) is the
\* only row of the table.
C25_Witness ==
  /\ pc = "done" /\ impl \in Backends /\ op.minDist = 0 /\ FixedAndFree(op)
  /\ tables.sub # <<>>
  /\ LET x == IF isVariable(op.lhs) THEN op.rhs.id ELSE op.lhs.id
     IN /\ x \notin NodesOf(EdgeSet(op, tables.sub))
        /\ table = <<<<x, x>>>>

\* C26 (reverse direction keeps the column roles): when the right side is a
\* fixed id b and the left side a free variable, every row of the table
\* holds b in column 1 and in column 0 a node from which a walk of forward
\* edges within the window leads to b, and b is the only key of the hull.
C26_ReverseKeepsColumns ==
  (pc = "done" /\ ~isVariable(op.rhs) /\ Free(op.lhs)) =>
    /\ dir = "rhs"
    /\ \A i \in 1..Len(table) :
         /\ table[i][2] = op.rhs.id
         /\ PathExists(EdgeSet(op, tables.sub), table[i][1], op.rhs.id, op.minDist, op.maxDist)
    /\ DOMAIN hull \subseteq {op.rhs.id}

\* QueryExecutionTree::knownEmptyResult of a sub-plan: the plan knows that
\* its result has no rows.
planKnownEmptyResult(plan) == tables[plan.id] = <<>>

\* TransitivePath::knownEmptyResult.
knownEmptyResult(o) == planKnownEmptyResult(o.subtree)

\* C27 (knownEmptyResult and computeResult): when knownEmptyResult() is
\* true, the table computeResult returns has no rows, for every window and
\* all sides that are not rejected.
C27_KnownEmptyIsEmpty ==
  (pc = "done" /\ knownEmptyResult(op)) => table = <<>>

\* TransitivePathSide::isSortedOnInputCol: the side is bound and its feeder
\* is sorted on the join column first.
isSortedOnInputCol(side) ==
  /\ isBoundVariable(side)
  /\ side.tree.sortedOn # <<>>
  /\ side.tree.sortedOn[1] = side.col

\* Variant of resultSortedOn: the right side is asked first.
resultSortedOn_rightFirst(o) ==
  IF isSortedOnInputCol(o.rhs) THEN <<1>>
  ELSE IF isSortedOnInputCol(o.lhs) THEN <<0>>
  ELSE <<>>

\* TransitivePath::resultSortedOn.
resultSortedOn(o) ==
  IF isSortedOnInputCol(o.lhs) THEN <<0>>
  ELSE IF isSortedOnInputCol(o.rhs) THEN <<1>>
  ELSE <<>>

\* C28 (declared sortedness is real): when resultSortedOn() is [c], the rows
\* of the table computeResult returns are in non-decreasing order of column
\* c, for all kinds of sides.
C28_SortedAsDeclared ==
  (pc = "done" /\ impl = "Legacy" /\ resultSortedOn(op) # <<>>) =>
    IsSortedOn(table, resultSortedOn(op))

\* A call with the left side bound and the right side a fixed id, and a call
\* with both sides bound, returned rows of two start nodes, sorted on the
\* declared column 0.
C28_Witness ==
  /\ pc = "done" /\ impl = "Legacy"
  /\ isBoundVariable(op.lhs)
  /\ ~isVariable(op.rhs) \/ isBoundVariable(op.rhs)
  /\ resultSortedOn(op) = <<0>>
  /\ \E i, j \in 1..Len(table) : table[i][1] < table[j][1]

\* The output column bindLeftOrRightSide registers for the feeder's column c.
RegisteredCol(c, inputCol) == IF c < inputCol THEN c + 2 ELSE c + 1

\* The side of o that is bound, for an operator with one bound side.
BoundSide(o) == IF isBoundVariable(o.lhs) THEN o.lhs ELSE o.rhs

BoundOnOneSide(o) == isBoundVariable(o.lhs) # isBoundVariable(o.rhs)

\* C29 (variable map matches the data): in an operator bound on one side to
\* a feeder with join column inputCol, the variable of each feeder column
\* c # inputCol is registered at output column c + 2 if c < inputCol and
\* c + 1 if c > inputCol, and in every row computeResult emits for a row of
\* the feeder that output column holds the feeder row's column c.
C29_MapMatchesData ==
  /\ \A a \in 1..Len(heap) :
       BoundOnOneSide(heap[a]) =>
         LET b == BoundSide(heap[a])
             pvars == PlanVars(b.tree.id)
         IN \A c \in 0..(Len(pvars) - 1) :
              c # b.col =>
                <<pvars[c + 1], RegisteredCol(c, b.col)>> \in heap[a].variableColumns
  /\ (pc = "done" /\ impl = "Legacy" /\ BoundOnOneSide(op)) =>
       LET b == BoundSide(op)
           B == sideRes
       IN /\ Len(table) = Offset(B, b.col, hull, Len(B) + 1)
          /\ \A i \in 1..Len(B) : \A k \in 1..BlockSize(B, b.col, hull, i) :
               \A c \in 0..(Len(B[i]) - 1) :
                 c # b.col =>
                   table[Offset(B, b.col, hull, i) + k][RegisteredCol(c, b.col) + 1]
                     = B[i][c + 1]

\* computeResult of an operator bound on the right side to p3 on its column
\* 0 returned rows for two feeder rows that differ in column 1, which is
\* registered for ?b at output column 2 = 1 + 1.
C29_Witness ==
  /\ pc = "done" /\ impl = "Legacy" /\ BoundOnOneSide(op)
  /\ BoundSide(op).tree.id = "p3" /\ BoundSide(op).col = 0
  /\ <<"?b", 2>> \in op.variableColumns
  /\ \E i, j \in 1..Len(table) : table[i][3] = 20 /\ table[j][3] = 21

\* The same for the left side bound to p1 on its column 1: column 0 is
\* registered for ?a at output column 2 = 0 + 2.
C29_WitnessBelow ==
  /\ pc = "done" /\ impl = "Legacy" /\ BoundOnOneSide(op)
  /\ BoundSide(op).tree.id = "p1" /\ BoundSide(op).col = 1
  /\ <<"?a", 2>> \in op.variableColumns
  /\ \E i, j \in 1..Len(table) : table[i][3] # table[j][3]

\* ------------------------------------------------ IdMapping, buildMapping
\* Number of ids and largest number of addId calls on one IdMapping.
NumIds == 4
MaxAddIds == 5
\* Largest number of rows of the edge columns given to buildMapping.
MaxEdgeRows == 2

MapIds == 1..NumIds

\* IdMapping::isContained.
isContained(m, id) == id \in DOMAIN m.idMap_

\* Variant of addId: the id is entered again although it is contained.
addId_again(m, id) ==
  [mapping |-> [idMap_ |-> [i \in DOMAIN m.idMap_ \cup {id} |-> IF i = id THEN m.nextIndex_ ELSE m.idMap_[i]],
                indexMap_ |-> Append(m.indexMap_, id),
                nextIndex_ |-> m.nextIndex_ + 1],
   result |-> m.nextIndex_]

\* IdMapping::addId: the mapping after the call and the index returned.
addId(m, id) ==
  IF ~isContained(m, id)
  THEN [mapping |-> [idMap_ |-> (id :> m.nextIndex_) @@ m.idMap_,
                     indexMap_ |-> Append(m.indexMap_, id),
                     nextIndex_ |-> m.nextIndex_ + 1],
        result |-> (m.nextIndex_ + 1) - 1]
  ELSE [mapping |-> m, result |-> m.idMap_[id]]

\* IdMapping::getId (indexMap_.at), getIndex (idMap_.at) and size, with the
\* 0-based indices of the code.
getId(m, index) == m.indexMap_[index + 1]
getIndex(m, id) == m.idMap_[id]
size(m) == Len(m.indexMap_)

\* The lambda addNode of PathSearch::buildMapping on the pair of containers.
addNode(maps, node) ==
  IF node \notin DOMAIN maps.idToIndex
  THEN [idToIndex |-> (node :> Len(maps.indexToId)) @@ maps.idToIndex,
        indexToId |-> Append(maps.indexToId, node)]
  ELSE maps

\* PathSearch::buildMapping: the loop over the rows, from row i on.
RECURSIVE buildMapping(_, _, _, _)
buildMapping(maps, startNodes, endNodes, i) ==
  IF ~(i < Len(startNodes)) THEN maps
  ELSE buildMapping(addNode(addNode(maps, startNodes[i + 1]), endNodes[i + 1]),
                    startNodes, endNodes, i + 1)

\* A call of addId on the IdMapping.
AddId ==
  /\ mapPc \in {"new", "built"}
  /\ Len(addIdCalls) < MaxAddIds
  /\ \E id \in MapIds :
       /\ idMapping' = addId(idMapping, id).mapping
       /\ addIdResult' = addId(idMapping, id).result
       /\ addIdCalls' = Append(addIdCalls, id)
  /\ UNCHANGED <<pathVars, mainVars, ltVars, idToIndex_, indexToId_, edgeColumns, mapPc>>

\* The call of buildMapping on the two node columns of the edge table.
BuildMapping ==
  /\ mapPc = "new"
  /\ LET built == buildMapping([idToIndex |-> idToIndex_, indexToId |-> indexToId_],
                               edgeColumns[1], edgeColumns[2], 0)
     IN /\ idToIndex_' = built.idToIndex
        /\ indexToId_' = built.indexToId
  /\ mapPc' = "built"
  /\ UNCHANGED <<pathVars, mainVars, ltVars, idMapping, addIdCalls, addIdResult, edgeColumns>>

\* The two node columns of an edge table: lists of the same length.
EdgeColumns ==
  UNION { { <<s, e>> : s \in [1..n -> 1..NumNodes], e \in [1..n -> 1..NumNodes] } :
          n \in 0..MaxEdgeRows }

InitMapping ==
  /\ PathIdle
  /\ MainNotStarted
  /\ LocatedNotStarted
  /\ idMapping = NewIdMapping
  /\ addIdCalls = <<>>
  /\ addIdResult = 0
  /\ idToIndex_ = <<>>
  /\ indexToId_ = <<>>
  /\ edgeColumns \in EdgeColumns
  /\ mapPc = "new"

NextMapping ==
  \/ AddId
  \/ BuildMapping

SpecMapping == InitMapping /\ [][NextMapping]_vars

\* The nodes of the two columns in the order buildMapping meets them.
RECURSIVE Interleaved(_, _)
Interleaved(startNodes, endNodes) ==
  IF startNodes = <<>> THEN <<>>
  ELSE <<Head(startNodes), Head(endNodes)>> \o Interleaved(Tail(startNodes), Tail(endNodes))

\* idMap_ and indexMap_ are mutually inverse, the indices are 0 .. size()-1
\* in the order of the first insertions, and nextIndex_ is size().
IdMappingBijection ==
  /\ DOMAIN idMapping.idMap_ = Range(addIdCalls)
  /\ \A id \in DOMAIN idMapping.idMap_ :
       /\ getIndex(idMapping, id) \in 0..(size(idMapping) - 1)
       /\ getId(idMapping, getIndex(idMapping, id)) = id
  /\ \A i \in 0..(size(idMapping) - 1) :
       /\ isContained(idMapping, getId(idMapping, i))
       /\ getIndex(idMapping, getId(idMapping, i)) = i
  /\ idMapping.indexMap_ = Dedup(addIdCalls)
  /\ idMapping.nextIndex_ = size(idMapping)
  /\ addIdCalls # <<>> => addIdResult = getIndex(idMapping, addIdCalls[Len(addIdCalls)])

\* The same for the pair of containers buildMapping fills.
BuiltBijection ==
  mapPc = "built" =>
    /\ indexToId_ = Dedup(Interleaved(edgeColumns[1], edgeColumns[2]))
    /\ DOMAIN idToIndex_ = Range(indexToId_)
    /\ \A i \in 1..Len(indexToId_) : idToIndex_[indexToId_[i]] = i - 1

\* An addId call on an id that is contained returns its index and leaves
\* the mapping as it is.
AddIdOfContained ==
  \A id \in MapIds :
    (addIdCalls' = Append(addIdCalls, id) /\ isContained(idMapping, id)) =>
      /\ idMapping' = idMapping
      /\ addIdResult' = getIndex(idMapping, id)

\* C30 (IdMapping stays a bijection): after any sequence of addId calls,
\* getId(getIndex(id)) = id for every added id and getIndex(getId(i)) = i for
\* every i < size(), the indices are exactly 0 .. size()-1 in the order of
\* the first insertions, nextIndex_ = size(), and addId on a contained id
\* returns its index and changes nothing; buildMapping keeps its two
\* containers inverse in the same way.
C30_IdMappingBijection ==
  /\ [](IdMappingBijection /\ BuiltBijection)
  /\ [][AddIdOfContained]_vars

\* addId was called on an id that was contained, after a later id had been
\* added: three calls, two ids, and the repeated id kept index 0; and
\* buildMapping met a node twice.
C30_Witness ==
  /\ Len(addIdCalls) >= 3
  /\ addIdCalls[1] = addIdCalls[Len(addIdCalls)]
  /\ addIdCalls[2] # addIdCalls[1]
  /\ size(idMapping) >= 2
  /\ addIdResult = 0
  /\ mapPc = "built" /\ Len(indexToId_) >= 2
  /\ Len(indexToId_) < 2 * Len(edgeColumns[1])

====
